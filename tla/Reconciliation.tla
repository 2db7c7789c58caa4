--------------------------- MODULE Reconciliation ---------------------------
(***************************************************************************)
(* Matching imported bank transactions with approved accounting outcomes,  *)
(* and the human review of a match, as concurrent database sessions.       *)
(*                                                                         *)
(* Every request that changes something locks its bank transaction first   *)
(* (FOR UPDATE) and keeps the lock until it ends, so a request is two      *)
(* steps: it gets the lock, reads, checks and prepares its rows; then it   *)
(* commits them, which is when the database checks its unique constraints. *)
(* Requests about different transactions interleave freely, and they meet  *)
(* at the accounting outcomes, which no request locks.                     *)
(***************************************************************************)
EXTENDS Naturals, Sequences, FiniteSets

CONSTANTS
    Session,      \* concurrent requests, one database session each
    Txn,          \* bank transactions
    Outcome,      \* accounting review outcomes
    Eligible,     \* the outcomes the matcher scores as candidates of a transaction
    None,         \* no outcome
    MaxRuns,      \* bound on the match runs of one transaction
    MaxActions    \* bound on the review actions on one transaction

ASSUME EligibleAssumption == Eligible \in [Txn -> SUBSET Outcome]
ASSUME NoneAssumption == None \notin Outcome
ASSUME MarksAssumption == "open" \notin Outcome /\ "unmatched" \notin Outcome
ASSUME BoundsAssumption == MaxRuns \in Nat /\ MaxActions \in Nat

VARIABLES
    imported,     \* bank_transactions
    approved,     \* review_outcomes of type approved or corrected_and_approved
    runs,         \* match runs of each transaction, each the set of its candidates
    review,       \* reconciliation_reviews, at most one for each transaction
    outcomes,     \* reconciliation_outcomes
    actions,      \* reconciliation_review_actions of each transaction's review
    session       \* what each open transaction has prepared

vars == <<imported, approved, runs, review, outcomes, actions, session>>

\* ReconciliationReviewStatus and TERMINAL_RECONCILIATION_REVIEW_STATUSES.
ReviewStatus == {"open", "disputed", "matched", "unmatched"}
Terminal == {"matched", "unmatched"}

\* ReconciliationReviewActionType.
ActionType == {"candidate_selected", "disputed", "reopened", "approved_match", "marked_unmatched"}
Action == [type : ActionType, candidate : Outcome \cup {None}]

ReviewRow == [status : ReviewStatus \cup {"absent"}, run : Nat, selected : Outcome \cup {None}]
NoReview == [status |-> "absent", run |-> 0, selected |-> None]

ReconciliationOutcome == [txn : Txn, type : Terminal, matched : Outcome \cup {None}]

NoAction == [type |-> "none", candidate |-> None]

SessionRow == [state : {"idle", "match_commit", "create_commit", "review_commit"},
               txn : Txn \cup {None},
               candidates : SUBSET Outcome,
               row : ReviewRow,
               action : Action \cup {NoAction}]

Idle == [state |-> "idle", txn |-> None, candidates |-> {}, row |-> NoReview,
         action |-> NoAction]

Init ==
    /\ imported = {}
    /\ approved = {}
    /\ runs = [t \in Txn |-> <<>>]
    /\ review = [t \in Txn |-> NoReview]
    /\ outcomes = {}
    /\ actions = [t \in Txn |-> <<>>]
    /\ session = [s \in Session |-> Idle]

-----------------------------------------------------------------------------
(* Locks and reads. *)

\* lock_transaction, and lock_review which is only reached behind it.
HoldsTxn(s, t) == session[s].state # "idle" /\ session[s].txn = t

\* Mutant: the transaction is read without FOR UPDATE.
TxnReadUnlocked(t) == TRUE

TxnUnlocked(t) == \A s \in Session : ~HoldsTxn(s, t)

\* _approved_targets and match: the committed approvals the matcher accepts.
Candidates(t) == Eligible[t] \cap approved

\* get_candidate_for_run, for the match run the review was opened on.
InReviewedRun(t, o) == o \in runs[t][review[t].run]

\* get_outcome_for_review.
HasOutcome(t) == \E p \in outcomes : p.txn = t

\* get_matched_outcome_for_review_outcome.
AlreadyMatched(o) == \E p \in outcomes : p.matched = o

-----------------------------------------------------------------------------
(* What other components do: bank import and human review commit rows.     *)

ImportTransaction(t) ==
    /\ t \notin imported
    /\ imported' = imported \cup {t}
    /\ UNCHANGED <<approved, runs, review, outcomes, actions, session>>

ApproveOutcome(o) ==
    /\ o \notin approved
    /\ approved' = approved \cup {o}
    /\ UNCHANGED <<imported, runs, review, outcomes, actions, session>>

-----------------------------------------------------------------------------
(* ReconciliationApiService.generate_match_run *)

\* Mutant: that no review exists is checked before the transaction is locked,
\* here without any lock.
GenerateMatchRunUnlocked(s, t) ==
    /\ session[s].state = "idle"
    /\ t \in imported
    /\ Len(runs[t]) < MaxRuns
    /\ review[t].status = "absent"
    /\ session' = [session EXCEPT ![s] =
                     [Idle EXCEPT !.state = "match_commit", !.txn = t,
                                  !.candidates = Candidates(t)]]
    /\ UNCHANGED <<imported, approved, runs, review, outcomes, actions>>

\* Lock the transaction, refuse if a review has frozen its evidence, match.
GenerateMatchRun(s, t) ==
    /\ session[s].state = "idle"
    /\ t \in imported
    /\ Len(runs[t]) < MaxRuns
    /\ TxnUnlocked(t)
    /\ review[t].status = "absent"
    /\ session' = [session EXCEPT ![s] =
                     [Idle EXCEPT !.state = "match_commit", !.txn = t,
                                  !.candidates = Candidates(t)]]
    /\ UNCHANGED <<imported, approved, runs, review, outcomes, actions>>

MatchCommit(s) ==
    /\ session[s].state = "match_commit"
    /\ runs' = [runs EXCEPT ![session[s].txn] = Append(@, session[s].candidates)]
    /\ session' = [session EXCEPT ![s] = Idle]
    /\ UNCHANGED <<imported, approved, review, outcomes, actions>>

-----------------------------------------------------------------------------
(* ReconciliationReviewService.create_review *)

\* On any of the transaction's match runs, not only on its latest.
CreateReview(s, t, i) ==
    /\ session[s].state = "idle"
    /\ TxnUnlocked(t)
    /\ review[t].status = "absent"
    /\ i \in DOMAIN runs[t]
    /\ session' = [session EXCEPT ![s] =
                     [Idle EXCEPT !.state = "create_commit", !.txn = t,
                                  !.row = [status |-> "open", run |-> i, selected |-> None]]]
    /\ UNCHANGED <<imported, approved, runs, review, outcomes, actions>>

\* uq_reconciliation_reviews_transaction refuses a second review.
CreateCommit(s) ==
    /\ session[s].state = "create_commit"
    /\ LET t == session[s].txn
       IN  review' = IF review[t].status = "absent"
                       THEN [review EXCEPT ![t] = session[s].row]
                       ELSE review
    /\ session' = [session EXCEPT ![s] = Idle]
    /\ UNCHANGED <<imported, approved, runs, outcomes, actions>>

-----------------------------------------------------------------------------
(* Operations on an existing review. *)

\* _lock_review_context, then the change to the locked row and the action
\* record (_add_action) that goes with it.
LockAndChange(s, t, row, type, candidate) ==
    /\ session[s].state = "idle"
    /\ Len(actions[t]) < MaxActions
    /\ TxnUnlocked(t)
    /\ review[t].status # "absent"
    /\ session' = [session EXCEPT ![s] =
                     [Idle EXCEPT !.state = "review_commit", !.txn = t, !.row = row,
                                  !.action = [type |-> type, candidate |-> candidate]]]
    /\ UNCHANGED <<imported, approved, runs, review, outcomes, actions>>

SelectCandidate(s, t, o) ==
    /\ review[t].status = "open"
    /\ InReviewedRun(t, o)
    /\ LockAndChange(s, t, [review[t] EXCEPT !.selected = o], "candidate_selected", o)

Dispute(s, t) ==
    /\ review[t].status = "open"
    /\ LockAndChange(s, t, [review[t] EXCEPT !.status = "disputed"],
                     "disputed", review[t].selected)

Reopen(s, t) ==
    /\ review[t].status = "disputed"
    /\ LockAndChange(s, t, [review[t] EXCEPT !.status = "open"],
                     "reopened", review[t].selected)

\* That the selected outcome is free is read without a lock on it.
ApproveMatch(s, t) ==
    /\ review[t].status = "open"
    /\ review[t].selected # None
    /\ ~HasOutcome(t)
    /\ InReviewedRun(t, review[t].selected)
    /\ ~AlreadyMatched(review[t].selected)
    /\ LockAndChange(s, t, [review[t] EXCEPT !.status = "matched"],
                     "approved_match", review[t].selected)

\* From open and from disputed alike.
MarkUnmatched(s, t) ==
    /\ review[t].status \in ReviewStatus \ Terminal
    /\ ~HasOutcome(t)
    /\ LockAndChange(s, t, [review[t] EXCEPT !.status = "unmatched"],
                     "marked_unmatched", review[t].selected)

\* Mutant: the outcome is given the type of the action.
NewOutcomeOfAction(s) ==
    [txn |-> session[s].txn, type |-> session[s].action.type, matched |-> session[s].row.selected]

\* The outcome approve_match and mark_unmatched add.
NewOutcome(s) ==
    [txn |-> session[s].txn,
     type |-> session[s].row.status,
     matched |-> IF session[s].row.status = "matched" THEN session[s].row.selected ELSE None]

\* Mutant: the matched outcome is not unique in the database.
ConflictsByTransaction(o) == \E p \in outcomes : p.txn = o.txn

\* uq_reconciliation_outcomes_review, _transaction and _matched_review_outcome
\* (a null matched outcome never conflicts).
Conflicts(o) ==
    \E p \in outcomes : p.txn = o.txn \/ (o.matched # None /\ p.matched = o.matched)

\* Mutant: the review is committed before its outcome is inserted.
ReviewCommitFirst(s) ==
    /\ session[s].state = "review_commit"
    /\ review' = [review EXCEPT ![session[s].txn] = session[s].row]
    /\ actions' = [actions EXCEPT ![session[s].txn] = Append(@, session[s].action)]
    /\ outcomes' = IF session[s].row.status \in Terminal /\ ~Conflicts(NewOutcome(s))
                     THEN outcomes \cup {NewOutcome(s)} ELSE outcomes
    /\ session' = [session EXCEPT ![s] = Idle]
    /\ UNCHANGED <<imported, approved, runs>>

\* _commit_or_raise: the review, its action and its outcome together, or, when
\* a unique constraint fails, nothing and a conflict answer.
ReviewCommit(s) ==
    /\ session[s].state = "review_commit"
    /\ LET t == session[s].txn
           ends == session[s].row.status \in Terminal
       IN  IF ends /\ Conflicts(NewOutcome(s))
             THEN UNCHANGED <<review, actions, outcomes>>
             ELSE /\ review' = [review EXCEPT ![t] = session[s].row]
                  /\ actions' = [actions EXCEPT ![t] = Append(@, session[s].action)]
                  /\ outcomes' = IF ends THEN outcomes \cup {NewOutcome(s)} ELSE outcomes
    /\ session' = [session EXCEPT ![s] = Idle]
    /\ UNCHANGED <<imported, approved, runs>>

\* A database error or the loss of the process: nothing is left behind.
Rollback(s) ==
    /\ session[s].state # "idle"
    /\ session' = [session EXCEPT ![s] = Idle]
    /\ UNCHANGED <<imported, approved, runs, review, outcomes, actions>>

Request(s) ==
    \E t \in Txn :
        \/ GenerateMatchRun(s, t)
        \/ \E i \in 1 .. MaxRuns : CreateReview(s, t, i)
        \/ \E o \in Outcome : SelectCandidate(s, t, o)
        \/ Dispute(s, t)
        \/ Reopen(s, t)
        \/ ApproveMatch(s, t)
        \/ MarkUnmatched(s, t)

Next ==
    \/ \E t \in Txn : ImportTransaction(t)
    \/ \E o \in Outcome : ApproveOutcome(o)
    \/ \E s \in Session :
          \/ Request(s)
          \/ MatchCommit(s)
          \/ CreateCommit(s)
          \/ ReviewCommit(s)
          \/ Rollback(s)

Spec == Init /\ [][Next]_vars

-----------------------------------------------------------------------------
(* Properties. *)

\* Every variable, and what every open transaction carries, has its type.
TypeOK ==
    /\ imported \subseteq Txn
    /\ approved \subseteq Outcome
    /\ runs \in [Txn -> Seq(SUBSET Outcome)]
    /\ review \in [Txn -> ReviewRow]
    /\ outcomes \subseteq ReconciliationOutcome
    /\ actions \in [Txn -> Seq(Action)]
    /\ session \in [Session -> SessionRow]

\* However requests about different bank transactions interleave, an accounting
\* outcome is reconciled with at most one of them and a transaction has at most
\* one outcome, although approve_match checks both before it holds anything
\* that would keep them true.
MatchIsOneToOne ==
    \A p, q \in outcomes :
        p.txn = q.txn \/ (p.matched # None /\ p.matched = q.matched) => p = q

\* A review is terminal exactly when its outcome is recorded; a match is with
\* the candidate selected last, which was approved accounting evidence and a
\* candidate of the very match run the review was opened on.
ResolutionFollowsReview ==
    /\ \A t \in Txn : review[t].status \in Terminal => HasOutcome(t)
    /\ \A p \in outcomes :
          /\ review[p.txn].status = p.type
          /\ p.type = "matched" =>
                /\ p.matched = review[p.txn].selected
                /\ p.matched \in approved
                /\ InReviewedRun(p.txn, p.matched)
          /\ p.type = "unmatched" => p.matched = None

\* The review an action leads to from the review r.
ReviewAfter(r, a) ==
    CASE a.type = "candidate_selected" /\ r.status = "open" -> [r EXCEPT !.selected = a.candidate]
      [] a.type = "disputed" /\ r.status = "open" -> [r EXCEPT !.status = "disputed"]
      [] a.type = "reopened" /\ r.status = "disputed" -> [r EXCEPT !.status = "open"]
      [] a.type = "approved_match" /\ r.status = "open" /\ r.selected = a.candidate ->
            [r EXCEPT !.status = "matched"]
      [] a.type = "marked_unmatched" /\ r.status \in {"open", "disputed"} ->
            [r EXCEPT !.status = "unmatched"]
      [] OTHER -> [r EXCEPT !.status = "impossible"]

\* The review that the first n of its recorded actions lead to.
Replay(acts) ==
    LET replay[n \in 0 .. Len(acts)] ==
            IF n = 0 THEN [status |-> "open", selected |-> None]
                     ELSE ReviewAfter(replay[n - 1], acts[n])
    IN  replay

\* Replaying the recorded actions of a review from a newly opened one explains
\* its row: none is lost, and a match is never approved while a dispute stands.
ActionsReplay ==
    \A t \in Txn :
        IF review[t].status = "absent"
          THEN actions[t] = <<>>
          ELSE Replay(actions[t])[Len(actions[t])]
                  = [status |-> review[t].status, selected |-> review[t].selected]

KeepsEvidence(t) ==
    /\ \A i \in DOMAIN runs[t] : i \in DOMAIN runs'[t] /\ runs'[t][i] = runs[t][i]
    /\ review[t].status # "absent" => runs'[t] = runs[t] /\ review'[t].run = review[t].run

\* Match runs are only ever appended, and once a review has been opened its
\* evidence is frozen: no run is added under it and it stays on its run.
EvidenceIsFrozen == [][\A t \in Txn : KeepsEvidence(t)]_vars

-----------------------------------------------------------------------------
(* Refinement. *)

\* What the reconciliation outcomes say of each transaction.
OutcomeOf(t) == CHOOSE p \in outcomes : p.txn = t
Resolution ==
    [t \in Txn |->
        IF ~HasOutcome(t) THEN "open"
        ELSE IF OutcomeOf(t).type = "matched" THEN OutcomeOf(t).matched ELSE "unmatched"]

Ledger == INSTANCE MatchLedger WITH resolution <- Resolution

\* What the sessions commit is a behaviour of the ledger: a transaction is
\* resolved once and for ever, and only with an outcome that is still free.
ImplementsLedger == Ledger!Ledger
=============================================================================
