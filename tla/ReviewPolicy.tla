---------------------------- MODULE ReviewPolicy ----------------------------
(***************************************************************************)
(* The constant part of human review: task statuses and the transitions    *)
(* between them, the deterministic risk classification of an accounting    *)
(* decision, and the roles that may act on a task.                         *)
(***************************************************************************)
EXTENDS Naturals, FiniteSets

\* ReviewTaskStatus, ReviewEscalationState, ReviewRiskClass.
Status == {"open", "escalated", "information_requested", "approved", "rejected"}
Escalation == {"none", "senior_review"}
RiskClass == {"ordinary", "senior_review_required", "blocked"}

\* is_terminal_review_status.
Terminal == {"approved", "rejected"}

\* _ALLOWED_TRANSITIONS: a status not listed here has no way out.
AllowedTransitions ==
    [s \in Status |->
        CASE s = "open" -> {"escalated", "information_requested", "approved", "rejected"}
          [] s = "escalated" -> {"information_requested", "approved", "rejected"}
          [] s = "information_requested" -> {"open", "escalated", "rejected"}
          [] OTHER -> {}]

(***************************************************************************)
(* What the accounting engine concluded, as far as review can tell:        *)
(* whether some finding is an error, whether some finding is of a code     *)
(* that calls for a senior reviewer, and the journal it proposes.          *)
(***************************************************************************)
Verdict == [error : BOOLEAN, escalating : BOOLEAN,
            journal : {"none", "unbalanced", "balanced"}]

\* classify_review_risk.
ClassifyReviewRisk(v) ==
    CASE v.journal # "balanced" \/ v.error -> "blocked"
      [] v.journal = "balanced" /\ ~v.error /\ v.escalating -> "senior_review_required"
      [] OTHER -> "ordinary"
=============================================================================
