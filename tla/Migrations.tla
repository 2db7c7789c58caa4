---------------------------- MODULE Migrations ----------------------------
(***************************************************************************)
(* The schema migrations 0001 to 0008 and the review rows they meet.  A    *)
(* migration command moves the database from one version to any other by   *)
(* running the statements of the migrations between them, all in one       *)
(* transaction (alembic/env.py; PostgreSQL rolls DDL back).  A statement   *)
(* that the database refuses, or a crash, rolls the command back.          *)
(*                                                                         *)
(* The schema is the set of tables, and of the unique keys that a          *)
(* migration adds to an older table because a newer table refers to them.  *)
(* Of the rows only review tasks, their outcomes and the reconciliation    *)
(* outcomes that refer to these are followed: 0006 is the one migration    *)
(* that alters a table which already holds rows.  Indexes are left out.    *)
(* Rows change only while no migration runs.                               *)
(***************************************************************************)
EXTENDS Naturals, Sequences, FiniteSets

CONSTANTS
    Task,      \* review tasks, one for each accounting decision
    ClassOf,   \* what classify_review_risk computes for each task's decision
    None

RiskClass == {"ordinary", "senior_review_required", "blocked"}

ReviewRow == [status : {"open", "escalated", "information_requested", "approved", "rejected"},
              escalation : {"none", "senior_review"},
              risk : RiskClass \cup {None}]

ASSUME ClassAssumption == ClassOf \in [Task -> RiskClass]
ASSUME NoneAssumption == None \notin RiskClass \cup ReviewRow

VARIABLES
    version,   \* alembic_version
    schema,    \* tables and added keys that exist
    task,      \* review_tasks: None, or its status, escalation state and risk class
    outcome,   \* tasks with a row in review_outcomes
    legacy,    \* tasks whose risk class is the default that 0006 gave them
    txn,       \* the migration in progress: what it runs, how far, and what to roll back to
    refused    \* what the last migration was refused for

db == <<version, schema, task, outcome, legacy>>
vars == <<db, txn, refused>>

HeadVersion == 8

-----------------------------------------------------------------------------
(* Statements of each migration, in the order it runs them. *)

Create(names) == [i \in DOMAIN names |-> <<"create", names[i]>>]
Drop(names) == [i \in DOMAIN names |-> <<"drop", names[i]>>]

Upgrade1 == Create(<<"firms", "users", "firm_memberships", "client_entities",
                     "client_access", "audit_events">>)
Downgrade1 == Drop(<<"audit_events", "client_access", "client_entities",
                     "firm_memberships", "users", "firms">>)

Upgrade2 == Create(<<"uq_firm_memberships_id_user_firm_id", "documents", "document_files">>)
Downgrade2 == Drop(<<"document_files", "documents", "uq_firm_memberships_id_user_firm_id">>)

Upgrade3 == Create(<<"uq_document_files_id_document_scope", "extraction_runs",
                     "extracted_fields", "extraction_field_corrections">>)
Downgrade3 == Drop(<<"extraction_field_corrections", "extracted_fields", "extraction_runs",
                     "uq_document_files_id_document_scope">>)

Upgrade4 == Create(<<"accounting_decision_runs", "accounting_decision_findings",
                     "accounting_supplier_match_candidates", "accounting_recommendations",
                     "proposed_journals", "accounting_duplicate_candidates",
                     "proposed_journal_lines">>)
Downgrade4 == Drop(<<"proposed_journal_lines", "accounting_duplicate_candidates",
                     "proposed_journals", "accounting_recommendations",
                     "accounting_supplier_match_candidates",
                     "accounting_decision_findings", "accounting_decision_runs">>)

Upgrade5 == Create(<<"review_tasks">>)
Downgrade5 == Drop(<<"review_tasks">>)

Upgrade6 == <<<<"widen", "review_tasks">>>> \o Create(<<"review_comments", "review_outcomes">>)
Downgrade6 == Drop(<<"review_outcomes", "review_comments">>) \o <<<<"narrow", "review_tasks">>>>

Upgrade7 == Create(<<"uq_review_outcomes_id_scope", "bank_import_batches",
                     "bank_transactions", "reconciliation_match_runs",
                     "reconciliation_candidates">>)

\* Mutant: the key is dropped before the table that refers to it.
DropsKeyFirst7 == Drop(<<"uq_review_outcomes_id_scope", "reconciliation_candidates",
                         "reconciliation_match_runs", "bank_transactions",
                         "bank_import_batches">>)

Downgrade7 == Drop(<<"reconciliation_candidates", "reconciliation_match_runs",
                     "bank_transactions", "bank_import_batches",
                     "uq_review_outcomes_id_scope">>)

Upgrade8 == Create(<<"reconciliation_reviews", "reconciliation_review_actions",
                     "reconciliation_outcomes">>)
Downgrade8 == Drop(<<"reconciliation_outcomes", "reconciliation_review_actions",
                     "reconciliation_reviews">>)

Upgrade == <<Upgrade1, Upgrade2, Upgrade3, Upgrade4, Upgrade5, Upgrade6, Upgrade7, Upgrade8>>
Downgrade == <<Downgrade1, Downgrade2, Downgrade3, Downgrade4,
               Downgrade5, Downgrade6, Downgrade7, Downgrade8>>

-----------------------------------------------------------------------------
(* What the foreign keys of each table, and each added key, refer to. *)

Needs1 == [firms |-> {}, users |-> {}, firm_memberships |-> {"firms", "users"},
           client_entities |-> {"firms"},
           client_access |-> {"firm_memberships", "client_entities"},
           audit_events |-> {"users", "client_entities", "firms"}]

Needs2 == [uq_firm_memberships_id_user_firm_id |-> {"firm_memberships"},
           documents |-> {"client_entities", "firms", "uq_firm_memberships_id_user_firm_id"},
           document_files |-> {"documents"}]

Needs3 == [uq_document_files_id_document_scope |-> {"document_files"},
           extraction_runs |-> {"client_entities", "firms", "documents",
               "uq_document_files_id_document_scope", "uq_firm_memberships_id_user_firm_id"},
           extracted_fields |-> {"extraction_runs"},
           extraction_field_corrections |->
               {"extracted_fields", "uq_firm_memberships_id_user_firm_id"}]

Needs4 == [accounting_decision_runs |-> {"client_entities", "firms", "documents",
               "extraction_runs", "uq_firm_memberships_id_user_firm_id"},
           accounting_decision_findings |-> {"accounting_decision_runs"},
           accounting_supplier_match_candidates |-> {"accounting_decision_runs"},
           accounting_recommendations |-> {"accounting_decision_runs"},
           proposed_journals |-> {"accounting_decision_runs"},
           accounting_duplicate_candidates |->
               {"accounting_decision_runs", "documents", "extraction_runs"},
           proposed_journal_lines |-> {"proposed_journals"}]

Needs5 == [review_tasks |-> {"client_entities", "firms", "accounting_decision_runs",
               "uq_firm_memberships_id_user_firm_id", "client_access"}]

Needs6 == [review_comments |-> {"review_tasks", "uq_firm_memberships_id_user_firm_id"},
           review_outcomes |-> {"review_tasks", "uq_firm_memberships_id_user_firm_id",
               "proposed_journals"}]

Needs7 == [uq_review_outcomes_id_scope |-> {"review_outcomes"},
           bank_import_batches |-> {"firms", "client_entities"},
           bank_transactions |-> {"bank_import_batches"},
           reconciliation_match_runs |-> {"bank_transactions"},
           reconciliation_candidates |->
               {"reconciliation_match_runs", "uq_review_outcomes_id_scope"}]

Needs8 == [reconciliation_reviews |-> {"bank_transactions", "reconciliation_match_runs",
               "reconciliation_candidates", "uq_firm_memberships_id_user_firm_id"},
           reconciliation_review_actions |-> {"reconciliation_reviews",
               "reconciliation_candidates", "uq_firm_memberships_id_user_firm_id"},
           reconciliation_outcomes |-> {"reconciliation_reviews",
               "reconciliation_candidates", "uq_firm_memberships_id_user_firm_id"}]

References == {Needs1, Needs2, Needs3, Needs4, Needs5, Needs6, Needs7, Needs8}

\* What the table or key o refers to.
Needs(o) == UNION {needs[o] : needs \in {r \in References : o \in DOMAIN r}}

-----------------------------------------------------------------------------
(* Checks on review_tasks. *)

\* ck_review_tasks_status and ck_review_tasks_state_consistency of 0005.
FitsVersion5(row) ==
    \/ row.status = "open" /\ row.escalation = "none"
    \/ row.status = "escalated" /\ row.escalation = "senior_review"

\* The checks of 0006: status, risk class and state consistency.
FitsVersion6(row) ==
    /\ row.risk \in RiskClass
    /\ \/ FitsVersion5(row)
       \/ row.status \in {"information_requested", "approved", "rejected"}

Rows == {t \in Task : task[t] # None}

\* Mutant: rows that exist are taken to be ordinary.
OrdinaryByDefault == "ordinary"

\* server_default of the risk_class column that 0006 adds.
DefaultRisk == "blocked"

\* 0006 upgrade: the column is added, filled by its default.
Widened == [t \in Task |-> IF task[t] = None THEN None ELSE [task[t] EXCEPT !.risk = DefaultRisk]]

\* 0006 downgrade: the column is dropped.
Narrowed == [t \in Task |-> IF task[t] = None THEN None ELSE [task[t] EXCEPT !.risk = None]]

\* Mutant: the downgrade drops the checks of 0006 without restoring those of 0005.
NarrowUnchecked == TRUE

\* 0006 downgrade restores the checks of 0005 over the rows there are.
NarrowAllowed == \A t \in Rows : FitsVersion5(task[t])

-----------------------------------------------------------------------------
(* A migration command. *)

Idle == [running |-> FALSE, from |-> 0, to |-> 0, at |-> 0, step |-> 1, saved |-> <<>>]

\* The next migration to run is the one above the version reached, or the one at it.
Up == txn.to > txn.from
Current == IF Up THEN Upgrade[txn.at + 1] ELSE Downgrade[txn.at]

\* alembic upgrade or downgrade to a given version opens the transaction.
Begin(v) ==
    /\ ~txn.running /\ v # version
    /\ txn' = [running |-> TRUE, from |-> version, to |-> v, at |-> version,
               step |-> 1, saved |-> db]
    /\ refused' = None
    /\ UNCHANGED db

\* A statement is refused when it refers to what is missing, drops what something else
\* refers to, or adds a check that a row does not pass.
Allowed(s) ==
    CASE s[1] = "create" -> s[2] \notin schema /\ Needs(s[2]) \subseteq schema
      [] s[1] = "drop" -> s[2] \in schema /\ \A o \in schema : s[2] \notin Needs(o)
      [] s[1] = "widen" -> \A t \in Rows : FitsVersion6(Widened[t])
      [] s[1] = "narrow" -> NarrowAllowed

\* A new table is empty, and a dropped one takes its rows with it.
Execute(s) ==
    /\ schema' = CASE s[1] = "create" -> schema \cup {s[2]}
                   [] s[1] = "drop" -> schema \ {s[2]}
                   [] OTHER -> schema
    /\ task' = CASE s[1] = "widen" -> Widened
                 [] s[1] = "narrow" -> Narrowed
                 [] s = <<"drop", "review_tasks">> -> [t \in Task |-> None]
                 [] OTHER -> task
    /\ legacy' = CASE s[1] = "widen" -> Rows
                   [] s = <<"drop", "review_tasks">> -> {}
                   [] OTHER -> legacy
    /\ outcome' = IF s = <<"drop", "review_outcomes">> THEN {} ELSE outcome

Statement ==
    /\ txn.running /\ txn.at # txn.to /\ txn.step <= Len(Current)
    /\ Allowed(Current[txn.step])
    /\ Execute(Current[txn.step])
    /\ txn' = [txn EXCEPT !.step = @ + 1]
    /\ UNCHANGED <<version, refused>>

\* A migration is done: alembic_version is updated, in the same transaction.
FinishMigration ==
    /\ txn.running /\ txn.at # txn.to /\ txn.step > Len(Current)
    /\ version' = IF Up THEN txn.at + 1 ELSE txn.at - 1
    /\ txn' = [txn EXCEPT !.at = version', !.step = 1]
    /\ UNCHANGED <<schema, task, outcome, legacy, refused>>

CommitMigrations ==
    /\ txn.running /\ txn.at = txn.to
    /\ txn' = Idle
    /\ UNCHANGED <<db, refused>>

\* Mutant: the statements run outside a transaction.
KeepWhatWasDone == txn' = Idle /\ UNCHANGED db

\* begin_transaction around run_migrations.
Rollback ==
    /\ txn' = Idle
    /\ version' = txn.saved[1] /\ schema' = txn.saved[2] /\ task' = txn.saved[3]
    /\ outcome' = txn.saved[4] /\ legacy' = txn.saved[5]

StatementRefused ==
    /\ txn.running /\ txn.at # txn.to /\ txn.step <= Len(Current)
    /\ ~Allowed(Current[txn.step])
    /\ refused' = [up |-> Up, statement |-> Current[txn.step],
                   unknown |-> {t \in Rows : task[t].status \notin {"open", "escalated"}}]
    /\ Rollback

\* The command is killed, or loses its connection.
Crash ==
    /\ txn.running
    /\ Rollback
    /\ refused' = None

-----------------------------------------------------------------------------
(* Rows.  The code in this repository runs at the head version. *)

AtRest == ~txn.running /\ UNCHANGED <<version, schema, legacy, txn>> /\ refused' = None
Live == version = HeadVersion /\ AtRest

\* The release of version 0005, which is not in this repository, wrote what its checks allow.
EarlierReleaseWrites(t) ==
    /\ version = 5 /\ AtRest
    /\ \E row \in [status : {"open", "escalated"}, escalation : {"none", "senior_review"},
                   risk : {None}] :
          FitsVersion5(row) /\ task' = [task EXCEPT ![t] = row]
    /\ UNCHANGED outcome

\* create_task; uq_review_tasks_decision_run allows one for each decision.
CreateTask(t) ==
    /\ Live /\ task[t] = None
    /\ task' = [task EXCEPT ![t] = [status |-> "open", escalation |-> "none",
                                    risk |-> ClassOf[t]]]
    /\ UNCHANGED outcome

\* escalate_to_senior.
Escalate(t) ==
    /\ Live /\ t \in Rows /\ task[t].status = "open"
    /\ task' = [task EXCEPT ![t].status = "escalated", ![t].escalation = "senior_review"]
    /\ UNCHANGED outcome

\* request_information.
RequestInformation(t) ==
    /\ Live /\ t \in Rows /\ task[t].status \in {"open", "escalated"}
    /\ task' = [task EXCEPT ![t].status = "information_requested"]
    /\ UNCHANGED outcome

\* respond_to_information_request.
RespondToInformation(t) ==
    /\ Live /\ t \in Rows /\ task[t].status = "information_requested"
    /\ task' = [task EXCEPT ![t].status =
                    IF task[t].escalation = "senior_review" THEN "escalated" ELSE "open"]
    /\ UNCHANGED outcome

\* approve, as far as the risk class decides: recomputed, compared with the stored one, and
\* a high-risk task only from senior review.
Approve(t) ==
    /\ Live /\ t \in Rows /\ task[t].status \in {"open", "escalated"}
    /\ task[t].risk = ClassOf[t] /\ task[t].risk # "blocked"
    /\ task[t].risk = "senior_review_required" => task[t].status = "escalated"
    /\ task' = [task EXCEPT ![t].status = "approved"]
    /\ outcome' = outcome \cup {t}

\* reject.
Reject(t) ==
    /\ Live /\ t \in Rows
    /\ task[t].status \in {"open", "escalated", "information_requested"}
    /\ task' = [task EXCEPT ![t].status = "rejected"]
    /\ outcome' = outcome \cup {t}

-----------------------------------------------------------------------------

Init ==
    /\ version = 0 /\ schema = {} /\ task = [t \in Task |-> None]
    /\ outcome = {} /\ legacy = {}
    /\ txn = Idle /\ refused = None

Next ==
    \/ \E v \in 0..HeadVersion : Begin(v)
    \/ Statement \/ FinishMigration \/ CommitMigrations \/ StatementRefused \/ Crash
    \/ \E t \in Task :
          \/ EarlierReleaseWrites(t) \/ CreateTask(t) \/ Escalate(t)
          \/ RequestInformation(t) \/ RespondToInformation(t)
          \/ Approve(t) \/ Reject(t)

Spec == Init /\ [][Next]_vars

-----------------------------------------------------------------------------
(* Properties. *)

(***************************************************************************)
(* SchemaMatchesVersion: outside a migration the schema holds exactly the  *)
(* tables and keys that the migrations up to the recorded version create,  *)
(* each with everything it refers to, whatever sequence of upgrades,       *)
(* downgrades, refusals and crashes led there.  So an interrupted          *)
(* migration can simply be run again.                                      *)
(***************************************************************************)
SchemaMatchesVersion ==
    ~txn.running =>
        /\ schema = UNION {{s[2] : s \in {Upgrade[v][i] : i \in DOMAIN Upgrade[v]}} :
                              v \in 1..version}
        /\ \A o \in schema : Needs(o) \subseteq schema

(***************************************************************************)
(* OnlyReviewsBlockMigration: an upgrade is never refused, from any rows   *)
(* an earlier version allows; a downgrade is refused only by the checks    *)
(* that 0005 puts back on review_tasks, and only when some task is in a    *)
(* state 0005 did not know.                                                *)
(***************************************************************************)
OnlyReviewsBlockMigration ==
    refused # None =>
        /\ ~refused.up
        /\ refused.statement = <<"narrow", "review_tasks">>
        /\ refused.unknown # {}

\* A step that ends a migration, or is outside one, keeps the outcomes there were before it.
KeepsOutcomes ==
    ~txn'.running => IF txn.running THEN txn.saved[4] \subseteq outcome'
                                    ELSE outcome \subseteq outcome'

(***************************************************************************)
(* ResolutionsSurvive: no migration loses the outcome of a review.  The    *)
(* downgrade of 0006 drops review_outcomes before it restores the checks   *)
(* that a resolved task fails, so the outcome survives because that        *)
(* failure takes the whole command back.                                   *)
(***************************************************************************)
ResolutionsSurvive == [][KeepsOutcomes]_vars

(***************************************************************************)
(* LegacyTasksStayUnapproved: a task that was there when 0006 added the    *)
(* risk class is not approved: its class is the default, and not one that  *)
(* anything computed.                                                      *)
(***************************************************************************)
LegacyTasksStayUnapproved == \A t \in legacy : task[t].status # "approved"
=============================================================================
