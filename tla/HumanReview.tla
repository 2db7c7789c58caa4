---------------------------- MODULE HumanReview ----------------------------
(***************************************************************************)
(* Correction, accounting decision and human review of extracted evidence, *)
(* as concurrent database sessions.  Each request of the API is one        *)
(* transaction.  A step of a request is what it does between two points at *)
(* which other transactions can interfere: taking a row lock (FOR UPDATE,  *)
(* or the FOR KEY SHARE that inserting a row with a foreign key takes on   *)
(* the referenced row), stamping created_at when rows are flushed, and     *)
(* commit.  The rows other transactions see are the variables corrections, *)
(* decision, task, outcomes and history; what a transaction has read and   *)
(* has not committed yet is its session.  A lock is held exactly while its *)
(* session is in the states named by the Holds... operators.               *)
(*                                                                         *)
(* One firm and one client: every reviewer named here has access to it.    *)
(***************************************************************************)
EXTENDS ReviewPolicy, Sequences

CONSTANTS
    Session,      \* concurrent requests, one database session each
    Extraction,   \* succeeded extraction runs
    Field,        \* extracted fields of a run
    Decision,     \* identifiers of accounting decision runs
    Reviewer,     \* memberships with role accountant or senior reviewer
    Senior,       \* those with role senior reviewer
    Verdicts,     \* what the engine may conclude
    None,         \* no value
    MaxClock,     \* bound on created_at stamps
    MaxHistory    \* bound on the history of one task

ASSUME SeniorAssumption == Senior \subseteq Reviewer
ASSUME VerdictsAssumption == Verdicts \subseteq Verdict
ASSUME NoneAssumption ==
    None \notin Extraction \cup Field \cup Decision \cup Reviewer \cup Verdict \cup RiskClass
ASSUME BoundsAssumption == MaxClock \in Nat /\ MaxHistory \in Nat

VARIABLES
    clock,        \* the last created_at stamp given to a correction or decision
    corrections,  \* extraction_field_corrections of each extraction run
    decision,     \* accounting_decision_runs
    task,         \* review_tasks, at most one for each decision
    outcomes,     \* review_outcomes
    history,      \* audit events of each task, with the comment each one carries
    session       \* what each open transaction has read and wants to write

vars == <<clock, corrections, decision, task, outcomes, history, session>>

Correction == [field : Field, revision : Nat, at : Nat]

DecisionRow == [status : {"absent", "succeeded", "failed"},
                extraction : Extraction \cup {None},
                at : Nat,
                consumed : SUBSET Correction,
                verdict : Verdict \cup {None}]

NoDecision == [status |-> "absent", extraction |-> None, at |-> 0,
               consumed |-> {}, verdict |-> None]

TaskRow == [status : Status \cup {"absent"},
            owner : Reviewer \cup {None},
            escalation : Escalation,
            risk : RiskClass \cup {None}]

NoTask == [status |-> "absent", owner |-> None, escalation |-> "none", risk |-> None]

OutcomeType == {"approved", "corrected_and_approved", "rejected"}
Outcome == [task : Decision, type : OutcomeType, actor : Reviewer, corrections : Nat]

Event == {"created", "commented", "escalated", "information_requested",
          "information_responded", "approved", "rejected"}

State == {"idle", "correct_commit", "decide_wait", "decide_commit",
          "create_commit", "approve_wait", "task_commit"}

SessionRow == [state : State,
               extraction : Extraction \cup {None},
               decision : Decision \cup {None},
               field : Field \cup {None},
               revision : Nat,
               at : Nat,
               read : SUBSET Correction,
               verdict : Verdict \cup {None},
               actor : Reviewer \cup {None},
               row : TaskRow,
               event : Event \cup {None}]

Idle == [state |-> "idle", extraction |-> None, decision |-> None, field |-> None,
         revision |-> 0, at |-> 0, read |-> {}, verdict |-> None, actor |-> None,
         row |-> NoTask, event |-> None]

-----------------------------------------------------------------------------
(* Row locks. *)

\* FOR UPDATE on a review task: lock_for_decision.
HoldsTask(s, d) ==
    /\ session[s].state \in {"approve_wait", "task_commit"}
    /\ session[s].decision = d

\* FOR UPDATE on an extraction run: lock_run_for_document, in correct_field and approve.
HoldsRun(s, e) ==
    /\ \/ session[s].state = "correct_commit"
       \/ session[s].state = "task_commit" /\ session[s].event = "approved"
    /\ session[s].extraction = e

\* FOR KEY SHARE on an extraction run, from fk_accounting_decision_runs_extraction_scope.
SharesRun(s, e) ==
    /\ session[s].state = "decide_commit"
    /\ session[s].extraction = e

\* Mutant: the task is read without FOR UPDATE.
TaskReadUnlocked(d) == TRUE

TaskUnlocked(d) == \A s \in Session : ~HoldsTask(s, d)

\* Mutant: a correction or an approval does not lock the extraction run.
RunNeverLocked(e) == \A s \in Session : ~SharesRun(s, e)

RunUnlocked(e) == \A s \in Session : ~HoldsRun(s, e) /\ ~SharesRun(s, e)

\* Mutant: no foreign key, so the decision run is inserted without waiting.
RunNotReferenced(e) == TRUE

RunShareable(e) == \A s \in Session : ~HoldsRun(s, e)

-----------------------------------------------------------------------------
(* Reads. *)

ApprovedOutcome(o) == o.type \in {"approved", "corrected_and_approved"}

\* has_approved_outcome_for_extraction.
HasApprovedOutcome(e) ==
    \E o \in outcomes : ApprovedOutcome(o) /\ decision[o.task].extraction = e

Revisions(e, f) == {c.revision : c \in {x \in corrections[e] : x.field = f}}

\* next_revision_number: one more than the highest revision of the field.
NextRevision(e, f) ==
    1 + (CHOOSE n \in Revisions(e, f) \cup {0} : \A m \in Revisions(e, f) : m <= n)

\* Some correction of the decision's run was recorded after the decision.
StaleAfterCorrection(d) ==
    \E c \in corrections[decision[d].extraction] : c.at > decision[d].at

\* Mutant: any owner may approve what is not blocked.
MayApproveAny(m, t) == t.risk # "blocked"

\* The authority checks of approve, for the member who owns the task.
MayApprove(m, t) ==
    /\ t.risk # "blocked"
    /\ t.risk = "senior_review_required" =>
          /\ m \in Senior
          /\ t.status = "escalated"
          /\ t.escalation = "senior_review"

Init ==
    /\ clock = 0
    /\ corrections = [e \in Extraction |-> {}]
    /\ decision = [d \in Decision |-> NoDecision]
    /\ task = [d \in Decision |-> NoTask]
    /\ outcomes = {}
    /\ history = [d \in Decision |-> <<>>]
    /\ session = [s \in Session |-> Idle]

-----------------------------------------------------------------------------
(* ExtractionService.correct_field *)

\* Lock the run, refuse if it backs an approved record, read the next revision
\* number and flush the correction: created_at is stamped here.
CorrectField(s, e, f) ==
    /\ session[s].state = "idle"
    /\ clock < MaxClock
    /\ RunUnlocked(e)
    /\ ~HasApprovedOutcome(e)
    /\ clock' = clock + 1
    /\ session' = [session EXCEPT ![s] =
                     [Idle EXCEPT !.state = "correct_commit", !.extraction = e, !.field = f,
                                  !.revision = NextRevision(e, f), !.at = clock + 1]]
    /\ UNCHANGED <<corrections, decision, task, outcomes, history>>

\* Mutant: a correction also locks the tasks of its run, after the run itself.
CorrectFieldThenLockTasks(s) ==
    /\ session[s].state = "correct_commit"
    /\ \A d \in Decision : decision[d].extraction = session[s].extraction => TaskUnlocked(d)
    /\ LET e == session[s].extraction
           c == [field |-> session[s].field, revision |-> session[s].revision,
                 at |-> session[s].at]
       IN  corrections' = [corrections EXCEPT ![e] = @ \cup {c}]
    /\ session' = [session EXCEPT ![s] = Idle]
    /\ UNCHANGED <<clock, decision, task, outcomes, history>>

CorrectFieldCommit(s) ==
    /\ session[s].state = "correct_commit"
    /\ LET e == session[s].extraction
           c == [field |-> session[s].field, revision |-> session[s].revision,
                 at |-> session[s].at]
       IN  corrections' = [corrections EXCEPT ![e] = @ \cup {c}]
    /\ session' = [session EXCEPT ![s] = Idle]
    /\ UNCHANGED <<clock, decision, task, outcomes, history>>

-----------------------------------------------------------------------------
(* AccountingDecisionService.start_decision_run *)

\* Add the run and flush it: created_at is stamped, then the insert waits for
\* a key share lock on the extraction run.
StartDecision(s, e, d) ==
    /\ session[s].state = "idle"
    /\ clock < MaxClock
    /\ decision[d].status = "absent"
    /\ \A other \in Session : session[other].decision # d
    /\ clock' = clock + 1
    /\ session' = [session EXCEPT ![s] =
                     [Idle EXCEPT !.state = "decide_wait", !.extraction = e,
                                  !.decision = d, !.at = clock + 1]]
    /\ UNCHANGED <<corrections, decision, task, outcomes, history>>

\* The insert has its key share lock; the engine reads the corrections and
\* concludes v, or fails (None).
RunEngine(s, v) ==
    /\ session[s].state = "decide_wait"
    /\ RunShareable(session[s].extraction)
    /\ session' = [session EXCEPT ![s].state = "decide_commit",
                                  ![s].read = corrections[session[s].extraction],
                                  ![s].verdict = v]
    /\ UNCHANGED <<clock, corrections, decision, task, outcomes, history>>

\* Mutant: the run of an engine that failed is committed as it was inserted.
DecisionCommitRunning(s) ==
    /\ session[s].state = "decide_commit"
    /\ decision' = [decision EXCEPT ![session[s].decision] =
                      [status |-> IF session[s].verdict = None THEN "running" ELSE "succeeded",
                       extraction |-> session[s].extraction,
                       at |-> session[s].at,
                       consumed |-> session[s].read,
                       verdict |-> session[s].verdict]]
    /\ session' = [session EXCEPT ![s] = Idle]
    /\ UNCHANGED <<clock, corrections, task, outcomes, history>>

\* Commit the run as succeeded with its output, or as failed with none.
DecisionCommit(s) ==
    /\ session[s].state = "decide_commit"
    /\ LET failed == session[s].verdict = None
       IN  decision' = [decision EXCEPT ![session[s].decision] =
                          [status |-> IF failed THEN "failed" ELSE "succeeded",
                           extraction |-> session[s].extraction,
                           at |-> session[s].at,
                           consumed |-> IF failed THEN {} ELSE session[s].read,
                           verdict |-> session[s].verdict]]
    /\ session' = [session EXCEPT ![s] = Idle]
    /\ UNCHANGED <<clock, corrections, task, outcomes, history>>

-----------------------------------------------------------------------------
(* ReviewService.create_task *)

\* No lock: the absence of a task is read here and relied on at commit.
CreateTask(s, d, m) ==
    /\ session[s].state = "idle"
    /\ decision[d].status = "succeeded"
    /\ task[d].status = "absent"
    /\ session' = [session EXCEPT ![s] =
                     [Idle EXCEPT !.state = "create_commit", !.decision = d,
                        !.row = [status |-> "open", owner |-> m, escalation |-> "none",
                                 risk |-> ClassifyReviewRisk(decision[d].verdict)],
                        !.event = "created"]]
    /\ UNCHANGED <<clock, corrections, decision, task, outcomes, history>>

\* _commit_creation_or_raise: uq_review_tasks_decision_run lets the first
\* insert through; a second one is rolled back and answered review_task_exists.
CreateTaskCommit(s) ==
    /\ session[s].state = "create_commit"
    /\ LET d == session[s].decision
       IN  IF task[d].status = "absent"
             THEN /\ task' = [task EXCEPT ![d] = session[s].row]
                  /\ history' = [history EXCEPT ![d] = Append(@, "created")]
             ELSE UNCHANGED <<task, history>>
    /\ session' = [session EXCEPT ![s] = Idle]
    /\ UNCHANGED <<clock, corrections, decision, outcomes>>

-----------------------------------------------------------------------------
(* Operations that lock one task. *)

\* Mutant: _require_active_task is forgotten.
LockAndChangeAny(s, d, actor, row, event) ==
    /\ session[s].state = "idle"
    /\ Len(history[d]) < MaxHistory
    /\ TaskUnlocked(d)
    /\ task[d].status \in Status
    /\ session' = [session EXCEPT ![s] =
                     [Idle EXCEPT !.state = "task_commit", !.decision = d,
                                  !.actor = actor, !.row = row, !.event = event]]
    /\ UNCHANGED <<clock, corrections, decision, task, outcomes, history>>

\* _lock_task and _require_active_task, then the changes the handler makes to
\* the row it has locked and the event it records.
LockAndChange(s, d, actor, row, event) ==
    /\ session[s].state = "idle"
    /\ Len(history[d]) < MaxHistory
    /\ TaskUnlocked(d)
    /\ task[d].status \in Status \ Terminal
    /\ session' = [session EXCEPT ![s] =
                     [Idle EXCEPT !.state = "task_commit", !.decision = d,
                                  !.actor = actor, !.row = row, !.event = event]]
    /\ UNCHANGED <<clock, corrections, decision, task, outcomes, history>>

\* ReviewInteractionService.add_comment: any reviewer, the owner or not.
AddComment(s, d, m) == LockAndChange(s, d, m, task[d], "commented")

\* ReviewService.escalate_to_senior, to the senior reviewer n.
EscalateToSenior(s, d, m, n) ==
    /\ task[d].owner = m
    /\ task[d].status = "open"
    /\ LockAndChange(s, d, m,
                     [task[d] EXCEPT !.status = "escalated", !.owner = n,
                                     !.escalation = "senior_review"],
                     "escalated")

\* ReviewInteractionService.request_information.
RequestInformation(s, d, m) ==
    /\ task[d].owner = m
    /\ task[d].status \in {"open", "escalated"}
    /\ LockAndChange(s, d, m, [task[d] EXCEPT !.status = "information_requested"],
                     "information_requested")

\* Mutant: the task always resumes as open.
RespondAndReopen(s, d) ==
    /\ task[d].status = "information_requested"
    /\ LockAndChange(s, d, None, [task[d] EXCEPT !.status = "open"], "information_responded")

\* ReviewInteractionService.respond_to_information_request, by a client
\* submitter: the task resumes in the state its escalation implies.
RespondToInformationRequest(s, d) ==
    /\ task[d].status = "information_requested"
    /\ LockAndChange(s, d, None,
                     [task[d] EXCEPT !.status = IF task[d].escalation = "senior_review"
                                                THEN "escalated" ELSE "open"],
                     "information_responded")

\* ReviewOutcomeService.reject.
Reject(s, d, m) ==
    /\ task[d].owner = m
    /\ \A o \in outcomes : o.task # d
    /\ LockAndChange(s, d, m, [task[d] EXCEPT !.status = "rejected"], "rejected")

-----------------------------------------------------------------------------
(* ReviewOutcomeService.approve *)

\* Lock the task and check everything that depends on the task and on its
\* decision; the request then waits for the extraction run.
Approve(s, d, m) ==
    /\ session[s].state = "idle"
    /\ Len(history[d]) < MaxHistory
    /\ TaskUnlocked(d)
    /\ task[d].owner = m
    /\ task[d].status \in {"open", "escalated"}
    /\ \A o \in outcomes : o.task # d
    /\ decision[d].status = "succeeded"
    /\ ClassifyReviewRisk(decision[d].verdict) = task[d].risk
    /\ decision[d].verdict.journal = "balanced"
    /\ session' = [session EXCEPT ![s] =
                     [Idle EXCEPT !.state = "approve_wait", !.decision = d, !.actor = m,
                                  !.extraction = decision[d].extraction]]
    /\ UNCHANGED <<clock, corrections, decision, task, outcomes, history>>

\* Lock the run, read its corrections, and refuse a stale decision or an
\* approval beyond the owner's authority.
ApproveLockRun(s) ==
    /\ session[s].state = "approve_wait"
    /\ RunUnlocked(session[s].extraction)
    /\ LET d == session[s].decision
       IN  session' = [session EXCEPT ![s] =
                         IF StaleAfterCorrection(d) \/ ~MayApprove(session[s].actor, task[d])
                           THEN Idle
                           ELSE [@ EXCEPT !.state = "task_commit",
                                          !.read = corrections[session[s].extraction],
                                          !.row = [task[d] EXCEPT !.status = "approved"],
                                          !.event = "approved"]]
    /\ UNCHANGED <<clock, corrections, decision, task, outcomes, history>>

\* The review outcome approve and reject add, in the transaction that ends the task.
OutcomeOf(s) ==
    [task |-> session[s].decision,
     type |-> IF session[s].event = "rejected" THEN "rejected"
              ELSE IF session[s].read = {} THEN "approved" ELSE "corrected_and_approved",
     actor |-> session[s].actor,
     corrections |-> Cardinality(session[s].read)]

\* _commit_or_raise: the changed task, its comment or outcome, and the audit event.
TaskCommit(s) ==
    /\ session[s].state = "task_commit"
    /\ LET d == session[s].decision
       IN  /\ task' = [task EXCEPT ![d] = session[s].row]
           /\ history' = [history EXCEPT ![d] = Append(@, session[s].event)]
    /\ outcomes' = IF session[s].row.status \in Terminal
                     THEN outcomes \cup {OutcomeOf(s)}
                     ELSE outcomes
    /\ session' = [session EXCEPT ![s] = Idle]
    /\ UNCHANGED <<clock, corrections, decision>>

-----------------------------------------------------------------------------
\* A failed flush or commit, an exception after the first write, or the loss of
\* the process or its connection: the transaction leaves nothing behind.
Rollback(s) ==
    /\ session[s].state # "idle"
    /\ session' = [session EXCEPT ![s] = Idle]
    /\ UNCHANGED <<clock, corrections, decision, task, outcomes, history>>

Next ==
    \E s \in Session :
        \/ \E e \in Extraction, f \in Field : CorrectField(s, e, f)
        \/ CorrectFieldCommit(s)
        \/ \E e \in Extraction, d \in Decision : StartDecision(s, e, d)
        \/ \E v \in Verdicts \cup {None} : RunEngine(s, v)
        \/ DecisionCommit(s)
        \/ \E d \in Decision, m \in Reviewer : CreateTask(s, d, m)
        \/ CreateTaskCommit(s)
        \/ \E d \in Decision, m \in Reviewer : AddComment(s, d, m)
        \/ \E d \in Decision, m \in Reviewer, n \in Senior : EscalateToSenior(s, d, m, n)
        \/ \E d \in Decision, m \in Reviewer : RequestInformation(s, d, m)
        \/ \E d \in Decision : RespondToInformationRequest(s, d)
        \/ \E d \in Decision, m \in Reviewer : Reject(s, d, m)
        \/ \E d \in Decision, m \in Reviewer : Approve(s, d, m)
        \/ ApproveLockRun(s)
        \/ TaskCommit(s)
        \/ Rollback(s)

Spec == Init /\ [][Next]_vars

\* A request that holds what it needs runs to its end, and one that waits for a
\* row lock is granted it if the lock keeps becoming free (waiters queue in the
\* database).  Nobody is obliged to send a request or to fail.
Fairness ==
    \A s \in Session :
        /\ WF_vars(CorrectFieldCommit(s) \/ DecisionCommit(s) \/ CreateTaskCommit(s) \/ TaskCommit(s))
        /\ SF_vars(\E v \in Verdicts \cup {None} : RunEngine(s, v))
        /\ SF_vars(ApproveLockRun(s))

FairSpec == Spec /\ Fairness

-----------------------------------------------------------------------------
(* Properties. *)

\* Every variable, and what every open transaction carries, has its type.
TypeOK ==
    /\ clock \in Nat
    /\ corrections \in [Extraction -> SUBSET Correction]
    /\ decision \in [Decision -> DecisionRow]
    /\ task \in [Decision -> TaskRow]
    /\ outcomes \subseteq Outcome
    /\ history \in [Decision -> Seq(Event)]
    /\ session \in [Session -> SessionRow]

\* The journal a reviewer approved was computed from exactly the corrections
\* that stand, now and for ever after: neither a correction that was in flight
\* while the decision ran or while it was approved, nor one recorded later, is
\* missing from it, and the outcome records their number.
ApprovalsMatchEvidence ==
    \A o \in outcomes :
        ApprovedOutcome(o) =>
            /\ decision[o.task].consumed = corrections[decision[o.task].extraction]
            /\ o.corrections = Cardinality(corrections[decision[o.task].extraction])
            /\ o.type = "approved" <=> corrections[decision[o.task].extraction] = {}

\* Concurrent corrections of one field get the revisions 1, 2, 3, ... without
\* gap or repetition, and a later revision is never stamped before an earlier
\* one, so the effective value is the one corrected last.
RevisionsGapless ==
    \A e \in Extraction, f \in Field :
        /\ \E n \in 0 .. clock : Revisions(e, f) = 1 .. n
        /\ \A c1, c2 \in corrections[e] :
              c1.field = f /\ c2.field = f =>
                  (c1.revision < c2.revision <=> c1.at < c2.at)

\* A task is terminal exactly when it has an outcome, it never has two, and
\* the outcome agrees with the status and was recorded by the task's owner.
OneOutcomePerTerminalTask ==
    /\ \A d \in Decision :
          task[d].status \in Terminal => \E o \in outcomes : o.task = d
    /\ \A o \in outcomes :
          /\ task[o.task].status = IF ApprovedOutcome(o) THEN "approved" ELSE "rejected"
          /\ task[o.task].owner = o.actor
          /\ \A p \in outcomes : p.task = o.task => p = o

\* No decision that deterministic controls block is ever approved, and one that
\* calls for a senior reviewer is approved only by a senior reviewer to whom the
\* task was escalated.
ApprovalAuthority ==
    \A o \in outcomes :
        ApprovedOutcome(o) =>
            LET risk == ClassifyReviewRisk(decision[o.task].verdict)
            IN  /\ risk # "blocked"
                /\ risk = "senior_review_required" =>
                      /\ o.actor \in Senior
                      /\ \E i \in DOMAIN history[o.task] : history[o.task][i] = "escalated"

\* The status an event leads to from status s of a task, escalated or not.
StatusAfter(s, escalated, event) ==
    CASE event = "created" /\ s = "absent" -> "open"
      [] event = "commented" /\ s \in Status \ Terminal -> s
      [] event = "escalated" /\ s = "open" -> "escalated"
      [] event = "information_requested" /\ s \in {"open", "escalated"} -> event
      [] event = "information_responded" /\ s = "information_requested" ->
            IF escalated THEN "escalated" ELSE "open"
      [] event = "approved" /\ s \in {"open", "escalated"} -> event
      [] event = "rejected" /\ s \in Status \ Terminal -> event
      [] OTHER -> "impossible"

\* The first n events of a history escalate its task.
EscalatedBy(h, n) == \E i \in 1 .. n : h[i] = "escalated"

\* The status of a task after each number of the events of its history.
Replay(h) ==
    LET replay[n \in 0 .. Len(h)] ==
            IF n = 0 THEN "absent"
                     ELSE StatusAfter(replay[n - 1], EscalatedBy(h, n - 1), h[n])
    IN  replay

\* Replaying the audit events of a task, in the order they were committed, never
\* meets an event that could not happen there and ends in the task's row: no
\* operation is lost, applied twice or interleaved with another on its task.
HistoryReplays ==
    \A d \in Decision :
        LET h == history[d]
        IN  /\ task[d].status = Replay(h)[Len(h)]
            /\ task[d].escalation = "senior_review" <=> EscalatedBy(h, Len(h))

KeepsCommitted ==
    /\ \A d \in Decision :
          /\ task[d].status \in Terminal => task'[d] = task[d] /\ history'[d] = history[d]
          /\ decision[d].status # "absent" => decision'[d] = decision[d]
    /\ outcomes \subseteq outcomes'
    /\ \A e \in Extraction : corrections[e] \subseteq corrections'[e]

\* A resolved task and its history are never touched again, and no outcome,
\* correction or decision that has been committed is ever changed or removed.
CommittedIsFinal == [][KeepsCommitted]_vars

\* No request waits for ever for a lock another one holds: every transaction
\* ends, whatever order the sessions lock tasks and extraction runs in.
EveryRequestEnds ==
    \A s \in Session : session[s].state # "idle" ~> session[s].state = "idle"

-----------------------------------------------------------------------------
(* Refinement: the committed rows implement the abstract task lifecycle.   *)

ResolutionOf(d) ==
    IF \E o \in outcomes : o.task = d
      THEN (CHOOSE o \in outcomes : o.task = d).type
      ELSE "none"

TaskStatus == [d \in Decision |-> task[d].status]
TaskResume == [d \in Decision |->
                 IF task[d].escalation = "senior_review" THEN "escalated" ELSE "open"]
TaskResolution == [d \in Decision |-> ResolutionOf(d)]

Abstract == INSTANCE ReviewLifecycle WITH
    Task <- Decision,
    status <- TaskStatus,
    resume <- TaskResume,
    resolution <- TaskResolution

\* Whatever the sessions do, what they commit to the tasks is a behaviour of the
\* abstract lifecycle: only allowed transitions, an information request returns
\* to the state it interrupted, and an outcome comes with the end of its task.
ImplementsLifecycle == Abstract!Lifecycle
=============================================================================
