# LedgerPilot AI: verification project

TLA+ models of the parts of LedgerPilot AI in which several requests, a
transaction and its locks, or files and rows outside one transaction have to
work together; TLC configurations that check them on small instances; and TLAPS
proofs of the central results for every instance. `PROJECT.json` lists the
components, runs, mutants, hazards and theorems and maps every definition to the
source lines it models. Paths below are relative to `src/src/ledgerpilot/`.

## The system

LedgerPilot AI is a FastAPI service that takes an uploaded document to a
reconciled bank payment. Each request runs in one SQLAlchemy session
(`persistence/session.py`: `autoflush=False`, `expire_on_commit=False`) and one
PostgreSQL transaction at READ COMMITTED: every query sees what is committed
when it runs, and rows are only stable if they are locked. All concurrency is
therefore between transactions, and all coordination is row locks
(`SELECT ... FOR UPDATE`), the key share locks of foreign keys, and unique
constraints.

| Component | State | Operations | Interacts through |
|---|---|---|---|
| Document intake (`documents/`, `storage/`, `scanning/`) | files in staging, accepted, quarantine; `documents`, `document_files` | `submit_document` | files are moved outside the transaction that records them |
| Extraction (`extraction/`) | `extraction_runs`, `extracted_fields`, `extraction_field_corrections` | `start_extraction`, `correct_field` | reads stored documents; corrections lock the run |
| Accounting decisions (`accounting/`) | `accounting_decision_runs` and their output | `start_decision_run` | reads corrections and the client's other decisions; its insert shares the run's row |
| Human review (`review/`) | `review_tasks`, `review_comments`, `review_outcomes` | `create_task`, `add_comment`, `escalate_to_senior`, `request_information`, `respond_to_information_request`, `approve`, `reject` | locks the task, `approve` then the run |
| Bank import (`reconciliation/api_service.py`) | `bank_import_batches`, `bank_transactions` | `persist_import_batch` | unique constraints only |
| Match runs (`reconciliation/api_service.py`, `matching.py`, `targets.py`) | match runs and candidates | `generate_match_run` | locks the transaction, reads approved outcomes |
| Reconciliation review (`reconciliation/review_service.py`) | reviews, actions, outcomes | `create_review`, `select_candidate`, `dispute`, `reopen`, `approve_match`, `mark_unmatched` | locks the transaction; accounting outcomes are shared and not locked |
| Worklist (`reconciliation/worklist.py`) | none | `list_items` | four unlocked queries |
| Identity and authorization (`identity/`, `api/dependencies.py`, `review/support.py`) | `users`, `firm_memberships`, `client_access` | `authenticate`, `require_permission`, the role and client checks of the services, `_resolve_owner` | every request reads these rows, in queries of its own and without a lock |
| Migrations (`src/alembic/`) | the schema and `alembic_version` | `upgrade` and `downgrade` of 0001 to 0008 | rewrite the rows of `review_tasks` |
| Audit, HTTP API, frontend | audit events | recording, routing, views | called by, or calling, all of the above |

What is hard here, and what makes each part correct:

- *Intake*: storage, the scanner, the commit, the cleanup, the client's
  connection and the process may each fail. Nothing unscanned may be accepted,
  and an answer "stored" must be durable.
- *Correction, decision, approval*: whether an approval is over all the evidence
  is decided by comparing timestamps that are given at flush, before commit. It
  is right only because of three locks in three services.
- *Engine and matcher*: deterministic rules whose inputs are read at different
  times: a decision reads other decisions without a lock and at most the latest
  50, and a match reads corrections that are newer than the approval unless
  something forbids them.
- *Review tasks*: six operations race on one row; the task, its outcome and its
  audit trail must tell one story.
- *Import*: check-then-insert without locks, inserts that wait for each other.
- *Reconciliation*: reviews of different transactions compete for one accounting
  outcome and hold no common lock.
- *Worklist*: an answer assembled from four moments.
- *Authorization*: an authority is assembled from five queries while it may be
  revoked, and what a role may do from three tables in three places.
- *Migrations*: many statements in one transaction, over rows that earlier
  releases wrote, and downgrades that meet states the older schema lacks.

## Modules

| Module | Models |
|---|---|
| `ReviewPolicy` | statuses, allowed transitions, risk classes (`review/states.py`, `review/policy.py`) |
| `HumanReview` | corrections, decisions and review tasks as concurrent sessions |
| `ReviewLifecycle` | abstract: what review promises about a task; implemented by `HumanReview` |
| `Reconciliation` | match runs and reconciliation reviews as concurrent sessions |
| `MatchLedger` | abstract: each transaction resolved once, each outcome used once; implemented by `Reconciliation` |
| `ReconciliationWorklist` | composes `Reconciliation` with the worklist's queries |
| `BankImport` | concurrent imports with lookups, row by row inserts, waits and deadlocks |
| `DocumentIntake` | upload handlers with files, documents and faults |
| `ProviderOutput` | operators: validation of what a provider returns, and what the tables accept (`extraction/validation.py`, `persistence/models/extraction.py`) |
| `Extraction` | composes `DocumentIntake` with extraction requests, over `ProviderOutput` |
| `AccountingEngine` | operators: effective values, findings, supplier match, duplicates, journal (`accounting/engine.py`, `rules.py`) |
| `Matching` | operators: target projection, score, candidates and their order (`reconciliation/targets.py`, `matching.py`) |
| `PaymentPipeline` | composes both: corrections, overlapping decisions, approvals, match runs |
| `Access` | a request from authentication to answer, for every route, while users, roles and grants change |
| `Migrations` | the statements of the eight migrations, the transaction around them and the review rows they meet |
| `MC...` | the constants of the runs and their symmetry sets |
| `HumanReviewProofs`, `HumanReviewTaskProofs` | proofs about `HumanReview`: corrections and evidence; tasks, outcomes and the refinement |
| `ReconciliationProofs` | proofs about `Reconciliation`, and on top of them about `ReconciliationWorklist` |
| `PaymentPipelineProofs` | proofs about `PaymentPipeline` and the operators of `AccountingEngine` and `Matching` |
| `ExtractionProofs`, `BankImportProofs`, `AccessProofs`, `MigrationsProofs` | proofs about the module of that name; the first also about `DocumentIntake` and `ProviderOutput` |

**Sessions.** In `HumanReview` and `Reconciliation` the committed rows are
variables and `session[s]` is what an open transaction has read and will write.
An action is what a request does between two points where others can interfere:
getting a lock (with every read and check that follows while it is held), being
stamped, and committing. Locks are not variables: a lock is held exactly while
its session is in the states named by `HoldsTask`, `HoldsRun`, `SharesRun` and
`HoldsTxn`. A check that fails answers the request and changes nothing, so it is
a guard; the exceptions are checks made after a lock was already taken in an
earlier step (`ApproveLockRun`), which end the session. `Rollback` stands for
every failed flush or commit and for the loss of the process.

`correct_field` is stamped at the flush inside commit, after it has the run's
lock; the model stamps it when it gets the lock. Nothing another session does in
between depends on which of the two came first, because whatever reads or writes
that run's corrections waits for the lock. `start_decision_run` on the other
hand flushes first: it is stamped before it waits for the key share lock, and
those two are separate steps (`StartDecision`, `RunEngine`).

**Intake.** `files[u]` are the storage areas that hold a file of upload `u`,
`doc[u]` the committed document, `req[u]` the handler's local variables. The
`faults` field is auxiliary: it records what failed outside the handler, so that
a property can say which leftovers a fault excuses. A commit that raises may
have been applied.

**Extraction.** A provider returns a sequence of observations; a text is known by
its length, by whether it is written as its type asks and by whether a column can
hold its characters (`storable`: no NUL, no lone surrogate), a confidence in units
of 0.00001, so that rounding to four decimals is modelled, and a locator by what
`json.dumps` and the JSON column make of it (NaN and infinity are written but are no
JSON). The service's limit on a value and the column's are two constants. Where a
check stops with an error that is not validation's own (`RaisesField`: the length of
a path that is no string, a locator inside itself) the service catches nothing, and
`ValidationRaises` ends the request without a run. `job[j].read`, `out` and `lost`
are auxiliary: the provider was given the file, what it returned, and that something
outside the handler ended the request.

**Access.** `req` is the one request in progress: its principal as far as it has
been read, the route and the records it names. The route tables and
`RolePermissions` are the code's. Administration changes `users`, memberships
and grants between any two queries. `seen` is auxiliary: every fact (user active,
membership active with a role, grant active) that was true at some moment since
the request arrived. What the other modules say of a handler is here only the
chance that it refuses, except for the owner and the stage of a review task,
which authority depends on; `handed` is auxiliary and keeps the member an escalation
handed the task to. `Denied`, which `DutiesSeparated` is stated with, is not derived
from the code: it restates the permission matrix of the documents and what
`tests/unit/test_rbac.py` denies each role.

**Migrations.** The schema is a set of tables and of the keys that newer tables
refer to; `Needs` gives their foreign keys, so that a statement in the wrong order is
refused as the database would. A command saves the database when it begins,
which is what a rollback restores. `legacy` is auxiliary: the tasks whose risk
class is the default of 0006.

**Import.** A request's inserted and uncommitted keys are derived from its
progress. `WaitsFor` and `Deadlock` are the database's behaviour.

**Pipeline.** Values are texts, and `Lexicon` says what each conversion (decimal,
date, currency, supplier name, matching key, case folding) makes of a text; the
instance has texts that do not parse, are too precise, out of range, blank, or
equal but for their spelling. A document may have several extraction runs;
corrections, decisions and approvals belong to a run, and twins are sought among
documents. A decision is stamped and reads its own values (`StartDecision`), lists
the latest prior runs (`ListPriorRuns`), reads the values of each (`ReadPriorRun`)
and commits, and anything may happen between these steps that its lock on its own
extraction run lets through. It keeps the texts it was made from (`texts`) beside its
stamp (`at`), and, auxiliary, the stamps of all runs that were committed when it
listed (`saw`), so that properties can compare what was approved with what is matched
later, and say what a decision could know. Every match run keeps the approvals it ran
among. `HumanReview` has the locks that make
corrections and approvals single steps here, and `ApprovalsCorrect` is why
approval compares stamps and means evidence. An outcome's identifier, which
breaks ties between scores, is a free choice. `Ranked` states the sort by its
result: the place of a candidate is the number of those before it.

**Worklist.** `seen` is auxiliary: the states each transaction was in since the
list request began.

## Runs

Deadlock checking is on for `access` and `migrations`, where something can always
happen. It is off elsewhere: users may stop sending requests, and the bounds stop
them.

| Run | Instance | Shows |
|---|---|---|
| `human_review_evidence` | 3 sessions, 1 run, 2 fields, 2 decisions, 4 stamps | `ApprovalsMatchEvidence`, `RevisionsGapless`, `OneOutcomePerTerminalTask` |
| `human_review_tasks` | 2 sessions, 1 task, an accountant and a senior reviewer, 4 verdicts, histories up to 5 events, fair | `ApprovalAuthority`, `HistoryReplays`, `CommittedIsFinal`, refinement of `ReviewLifecycle`, `EveryRequestEnds` |
| `reconciliation` | 2 sessions, 2 transactions, 2 outcomes, 2 match runs and 3 actions each | `MatchIsOneToOne`, `ResolutionFollowsReview`, `ActionsReplay`, `EvidenceIsFrozen`, refinement of `MatchLedger` |
| `reconciliation_worklist` | 2 sessions, 1 transaction, 2 outcomes, 4 actions | `ListedStateWasReal`, `ResolvedItemHasOutcome` |
| `bank_import` | 3 requests, 7 batches, fair | `ImportedOnce`, `AnswersAreTruthful`, `EveryImportAnswered` |
| `bank_import_replay` | 2 requests | **violated**: see below |
| `extraction` | 2 uploads, 1 extraction request, provider outputs at and around every limit, and of each kind that stops validation or is refused by a column | `OnlyCleanAccepted`, `StoredAnswerIsDurable`, `DocumentNamesItsFile`, `NoLeftoverFile`, `ExtractedFromCleanSource`, `OutputIsRecorded` |
| `extraction_long_value` | 1 upload, values up to a setting above the column's limit | **violated**: see below |
| `payment_pipeline` | 2 documents that look alike, one with 2 extraction runs, 2 payments, 3 decisions, 2 approvals, 2 match runs, 3 stamps, prior limit 1 | `CandidatesAreThePayments`, `RankedByEvidence`, `RankingIsStable`, `TwinsAreFlagged`, `RepeatedApprovalsAgree` |
| `duplicate_race` | the same documents with 1 extraction run each, 2 decisions, 4 stamps, prior limit 2 | **violated**: see below |
| `access` | 2 users, 2 firms, 3 memberships, 2 clients, all roles and routes, 2 administrative changes | `AuthorityWasHeld`, `TenantIsolation`, `DutiesSeparated` |
| `migrations` | 2 tasks, all 8 migrations, any sequence of commands | `SchemaMatchesVersion`, `OnlyReviewsBlockMigration`, `LegacyTasksStayUnapproved`, `ResolutionsSurvive` |

*Why the bounds are enough.* The evidence race needs a correction, a decision
and an approval in flight at once (three sessions), two corrections around them,
and a second decision after a refusal as stale: four stamps. Races on one task or
one transaction are between two sessions; five events take a task through
creation, escalation, an information request and its answer, to its end. One outcome contended by two transactions, with a second
one to choose, is the smallest conflict of matches, and three actions are a
selection, another selection or a dispute, and a resolution; the worklist run
allows four (select, dispute, reopen, approve). Three imports make circles of
two and of three; the sample batches contain equal, reordered, changed,
overlapping and self-repeating ones. Uploads do not share anything, so two show
that, and a run shares nothing with another run of its document. Outputs have one
observation at, just within and just past each limit, two that repeat a path, and
one too many. In the pipeline two
documents make a pair of twins, a second extraction run shows what approvals of one
document need not agree on, a third decision lets one be crowded out of a prior limit
of one (the code's limit is 50; only whether it is reached matters), and three stamps
are three decisions, a correction before, between or after two, or two corrections of
one field before one. With a fourth stamp the run does not end in the time it has: a
correction beside three decisions is left to the proofs. A request
for access reads five facts; two changes suffice to revoke or grant one between
its reading and its use and another one around it, and one member of each role,
one of two firms and one client without access meet every check. Migrations are
not bounded: the schema has nine versions, and two tasks show one that blocks a
downgrade beside one that does not.

*Fairness.* `FairSpec` of `HumanReview` assumes that a request that holds what
it needs is executed to its commit (weak fairness), and that a request waiting
for a row lock is granted it if the lock is free again and again (strong
fairness: PostgreSQL queues waiters of a row). It does not assume that anyone
sends a request, or that a transaction ever fails. One case is idealised: a
stream of key share lockers can overtake a waiting FOR UPDATE in PostgreSQL;
decisions would have to arrive without a pause for ever. `FairSpec` of
`BankImport` assumes that requests that are not waiting go on and that the
database breaks deadlocks.

### The disagreements

`docs/PHASE6_BANK_RECONCILIATION.md:93` promises that an exact replay of a batch
returns the identities already stored. `bank_import_replay` finds two requests
with the same batch, both past the lookup of the batch before either commits:
the second is answered `bank_transaction_already_imported` or
`bank_import_conflict`. Nothing is stored twice (`ImportedOnce`), and a later
retry is answered with the identities.

The same line says that a batch whose data changed under the same reference is
rejected. The comparison (`reconciliation/api_service.py:402`) counts the
transactions and looks each one up, so a batch that names one stored transaction
twice, once with a blank before its identifier, is answered as a replay of a
stored batch of two. The proof of `AnswersAreTruthful` brought this up; the
property says that nothing else is mistaken for a replay.

`docs/EXTRACTION.md:99` says that malformed output fails the run. The setting
`extraction_max_value_chars` may be as high as 10000 (`core/config.py:54`) and the
columns hold 4000. `extraction_long_value` sets it higher than the column: a value
in between passes validation, the database refuses it, and no run is left that
says so. With the setting at the column's limit, which is its default, this remains
for fields that `Unrecordable` names: a page number beyond a 32-bit integer, a text
with a NUL character or a lone surrogate, a locator with NaN or infinity (all of which
validation passes), a path that is no string and a locator that `json.dumps` cannot
finish (at which validation stops with an error that nobody catches); and for output
without lineage or fields. `OutputIsRecorded` shows that nothing else has this effect.

`docs/REQUIREMENTS.md:17` (FR-011) asks that potential duplicates are identified
before approval. `duplicate_race` finds two documents that look alike and are
decided on at the same time: each decision lists only committed ones
(`accounting/service.py:296`), and both are approved without a flag (one of them needs
a senior reviewer, for the low confidence of its date, and gets one). The second
gap is the limit of 50 prior decisions (`persistence/repositories/accounting.py:106`),
which acts at the moment of the list: a decision that was stamped later and committed
earlier takes a place in it, and so does one of the same document.
`TwinsAreFlagged` shows that these two are the only gaps between approved decisions
(`Overlapped`: neither was committed when the other listed; `CrowdedOut`: it was, and as
many runs as the limit had later stamps), whatever corrections, stamps and commits come
between the steps of either.

### What the properties allow

`DocumentNamesItsFile` makes an exception for a commit that raised: when it was
applied all the same, the cleanup deletes the file of a stored document. The
uploader was told that the upload failed (`StoredAnswerIsDurable` has no
exception).
`NoLeftoverFile` excuses requests in which storage, the commit, the connection
or the process failed; nothing in the code collects the orphans these leave.
A worklist item may pair a review that was not yet terminal when it was read
with an outcome read later; its state is still one the transaction was in.

`AuthorityWasHeld` lets a request outlive a revocation that comes after the query
that read the authority: nothing is locked, and nothing is read twice. It does not
ask that the facts were true together at one moment, and they need not have been.
It says nothing of the user behind the owner a request names, which the code does
not look at: a task can be escalated to a senior reviewer whose user is
deactivated, and stays with it, since no operation reassigns a task.

`RepeatedApprovalsAgree` allows two approvals of one extraction run and shows that
they agree. Two extraction runs of one document are another matter: `correct_field` and
`approve` look at one run (`persistence/repositories/review.py:170`) and the duplicate
search leaves out the decision's own document, so two runs of it can be approved with
journals that contradict each other, and in the instance of `payment_pipeline` they are
(TLC finds it when the property is stated for documents). No document of the
repository says that this cannot happen. `DutiesSeparated` is about the roles a member
held during the request, not about one moment. `ResolutionsSurvive` is about review outcomes only: the downgrades of 0007
and 0008 drop what they created with its rows. A downgrade below 0006 and back
turns every open task into one that can only be rejected
(`LegacyTasksStayUnapproved`).

## Proofs

Every theorem is about all values of the constants: any number of sessions,
requests, uploads, rows and users, and bounds of any size. The constants are
assumed to be what the modules' `ASSUME`s say, which TLC evaluates in every run:
sets of reviewers are subsets, functions have their domains, bounds are natural
numbers, and `None` and the marks `"open"` and `"unmatched"` of `MatchLedger` are
not also names of outcomes or of rows. One theorem has an assumption of its own:
`OutputsRecorded` takes the limit on a value to be within the column's
(`MaxValueChars <= ColumnChars`), which the setting's default satisfies and
`extraction_long_value` does not.

Each argument is one inductive invariant, which TLC checked on the instances of
the runs before it was proved; the theorems follow from it.

| Module | Theorem | Establishes |
|---|---|---|
| `HumanReviewProofs` | `TypeCorrect` | `TypeOK` |
| | `RevisionsCorrect` | `RevisionsGapless` |
| | `ApprovalsCorrect` | `ApprovalsMatchEvidence` |
| `HumanReviewTaskProofs` | `OutcomesCorrect` | `OneOutcomePerTerminalTask` |
| | `AuthorityCorrect` | `ApprovalAuthority` |
| | `HistoryCorrect` | `HistoryReplays` |
| | `CommittedFinal` | the action property `CommittedIsFinal` |
| | `LifecycleImplemented` | the refinement of `ReviewLifecycle` |
| `ReconciliationProofs` | `TypeCorrect` | `TypeOK` |
| | `MatchesCorrect` | `MatchIsOneToOne` |
| | `ResolutionCorrect` | `ResolutionFollowsReview` |
| | `ActionsCorrect` | `ActionsReplay` |
| | `EvidenceFrozen` | the action property `EvidenceIsFrozen` |
| | `LedgerImplemented` | the refinement of `MatchLedger` |
| | `ListedStatesReal` | `ListedStateWasReal` |
| | `ResolvedItemsComplete` | `ResolvedItemHasOutcome` |
| `PaymentPipelineProofs` | `TypeCorrect` | `TypeOK` |
| | `ApprovalsAgree` | `RepeatedApprovalsAgree` |
| | `TwinsCorrect` | `TwinsAreFlagged` |
| | `CandidatesCorrect` | `CandidatesAreThePayments` |
| | `RankingByEvidence` | `RankedByEvidence` |
| | `RankingStable` | `RankingIsStable` |
| `ExtractionProofs` | `ExtractionTyped` | `ExtractionTypeOK` |
| | `AcceptedAreClean` | `OnlyCleanAccepted` |
| | `StoredIsDurable` | `StoredAnswerIsDurable` |
| | `DocumentsNameFiles` | `DocumentNamesItsFile` |
| | `NothingLeftOver` | `NoLeftoverFile` |
| | `CleanSources` | `ExtractedFromCleanSource` |
| | `OutputsRecorded` | `OutputIsRecorded` |
| `BankImportProofs` | `ImportsOnce` | `ImportedOnce` |
| | `AnswersTruthful` | `AnswersAreTruthful` |
| `AccessProofs` | `AuthorityHeld` | `AuthorityWasHeld` |
| | `TenantsIsolated` | `TenantIsolation` |
| | `DutiesAreSeparated` | `DutiesSeparated` |
| `MigrationsProofs` | `SchemaCorrect` | `SchemaMatchesVersion` |
| | `RefusalsCorrect` | `OnlyReviewsBlockMigration` |
| | `LegacyUnapproved` | `LegacyTasksStayUnapproved` |
| | `ResolutionsKept` | the action property `ResolutionsSurvive` |

**Evidence.** Gapless revisions are not inductive: a commit appends whatever
revision the session read earlier. `PendingIsNext` in `Foundation` says that this
is still the next one, and it is preserved because of `RunLocks` (two sessions
never hold one run for update, nor one for update and one shared) and
`StampsPast` (stamps come from the past). `ApprovalsCorrect` needs `Evidence` on
top. Its core is `DecisionsSeePast`: a committed decision that succeeded has
consumed every correction stamped no later than itself, and only corrections of
its run. A decision in flight and holding its share lock has read everything that
is committed, no correction can be in flight beside it, and corrections that come
later are stamped later. The approval's comparison of stamps then implies equality
of sets, and the run lock, held until the outcome is committed, with the check for
approved outcomes in `correct_field` keeps the sets equal.

**Tasks.** `Tasks` says that a task is locked by one session (`TaskLocks`), that
what this session will commit is a `TaskChange` of the row as it still is
(`TasksPrepared`), and that rows, outcomes and events agree. Each commit is then
one step of `ReviewLifecycle`, and every other step a stutter.

**Reconciliation.** The lock on the bank transaction keeps what a session read
about it true until it commits (`OneHolder`, `SessionsPrepared`). What it read
about the outcomes of other transactions may be stale, and no part of the
invariant says otherwise: `MatchIsOneToOne` is preserved by the unique constraints
at the commit alone. For the worklist, `ReadWasReal` and `ReadResolved` say what
the queries made so far have in common with the states in `seen`; the rows never
being taken back (`RowsStay`) is what keeps them true.

**Replays.** What a replay computes for every history needs an induction over its
length. `UpTo` and `BoundedInduction` obtain one from the well-foundedness of
`<`: a least prefix on which the claim fails cannot exist. Appending one event
leaves the replays of the prefixes as they were and adds one step.

**Intake and extraction.** The invariant says for each point of `submit_document`
what files, document, scan verdict and faults there can be, and likewise for each
point of `start_extraction`; both are statements about one upload or request,
since nothing is shared. `OutputsRecorded` compares validation with the columns,
check by check, rounding of confidences included.

**Import.** A key that an open transaction has inserted keeps every other one
from inserting it: `ApartFrom` says that of two requests, `NotStored` of a request
and the table. With them the lookup that found nothing may be stale without harm.

**Access.** What a query finds is true at that moment, `seen` has everything that
was true in the request so far (`SeesNow`), and `Progress` says which facts each
point of the request rests on. `Owned` says that a task's owner belongs to the
firm of its client.

**Migrations.** All tables and keys are created in one order (`Rank`) and dropped in
the opposite one, and whatever one refers to comes before it (`NeedsComeFirst`), so
the schema is a beginning of that order even between two statements, and creating
the next or dropping the last is never refused. `SavedOK` says what a rollback
restores. The outcomes survive the downgrade of 0006 because the tasks are still
those of the start (`Unnarrowed`) when they are checked: if the check passes, no
task was resolved, and so no outcome was dropped (`NothingLost`).

**Pipeline.** None of the six invariants is inductive. The invariant behind them
rests on stamps. `CurrentTexts` says that a decision whose extraction run has no later
correction was made from the values of now; `ApprovalsAreCurrent` that every
approval is of such a decision, which `approve` checks and `correct_field`, by
refusing approved runs, keeps. So all approvals of an extraction run agree, and the
values `_approved_targets` reads are those that were approved: `MatchesAreRanked`
says that each match run ranks the approvals it ran among by their own values.
What is left is about operators. `NotBlocked` and `TargetOfApproved` show that an
approved journal always projects to a target unless its date does not parse,
`ScoreIsSum` that the parts of a score add up to between 60 and 100, so neither
the minimum nor the cap ever acts on a candidate. `RankedIsSorted` shows that
`Ranked` lists each candidate once and in order: the number of candidates before a
candidate grows with its place, so it is an injection into as many places as there
are candidates, and hence hits all of them. For twins, `Seen` is about a decision
under way and each committed one that was within the limit when it listed: if that one
looks alike and still stands, its stamp is yet to be read or a twin was found. The list
establishes it, because as many stamps lie above one in `saw` as runs above it
(`VisibleIsPrior`, stamps being unique); a read keeps it, because what still stands was
decided from the values that are read (`TwinLooksLike`); a commit turns it into
`FlaggedFor`, and adds a stamp that no decision has in its `saw`.

Only model-checked: liveness (`EveryRequestEnds`, `EveryImportAnswered`), which is
out of the prover's reach, as is what the recursive `SelectSeq` of
`EffectiveTexts` computes (the proofs only use that it is a function of the
corrections), and the three violations, which are counterexamples.

## Not modelled

- What the engine's rules and the matcher's score conclude is in
  `PaymentPipeline`; `HumanReview` and `Reconciliation` take it as a free choice
  (`Verdicts`) and a constant (`Eligible`). Category, tax code and cost centre
  recommendations and the reasons and evidence texts are left out.
- Authorization beside the other components: `HumanReview` and the others take
  every request to be by a principal the code would admit, and `Access` has one
  request at a time. There the disabled authentication backend, which refuses
  everything, and the `status` of firms and clients, which no query reads, are
  left out, as is `tenancy/scope.py`, which nothing calls.
- Columns, checks and indexes of tables a migration creates empty; offline
  migrations, which only print statements.
- Audit events other than those of review tasks; schemas and error envelopes of
  the API; the frontend, a view whose rules decide only which buttons are shown.
- Clock skew between application servers: stamps come from one clock.

## Plan

1. The frontend's action policy as an operator compared with the guards of
   `HumanReview` and `Access`.
2. `HumanReview` and `Reconciliation` composed on the review outcomes that
   approvals commit.
