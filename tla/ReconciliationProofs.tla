------------------------ MODULE ReconciliationProofs ------------------------
(***************************************************************************)
(* Proofs about Reconciliation for every number of sessions, transactions, *)
(* outcomes, match runs and review actions, and whatever the matcher       *)
(* accepts; then about ReconciliationWorklist, on top of the invariant of  *)
(* the requests that run beside it.                                        *)
(***************************************************************************)
EXTENDS ReconciliationWorklist, WellFoundedInduction, TLAPS

(***************************************************************************)
(* The inductive invariant.  The row lock on the bank transaction keeps    *)
(* what a session read true until it commits; the outcomes of others,      *)
(* which no lock protects, are left to the unique constraints.             *)
(***************************************************************************)

\* One session at a time holds a transaction.
OneHolder ==
    \A s1, s2 \in Session, t \in Txn : s1 # s2 /\ HoldsTxn(s1, t) => ~HoldsTxn(s2, t)

\* Candidates were approved when they were matched, and approvals are final.
RunsApproved ==
    \A t \in Txn : \A i \in DOMAIN runs[t] : runs[t][i] \subseteq approved

\* The selected candidate is one of the run.
SelectedIn(row, t) ==
    /\ row.run \in DOMAIN runs[t]
    /\ row.selected # None => row.selected \in runs[t][row.run]

ReviewOnRun ==
    \A t \in Txn : IF review[t].status = "absent" THEN review[t] = NoReview
                                                  ELSE SelectedIn(review[t], t)

\* What a replay compares of a review.
Replayed(row) == [status |-> row.status, selected |-> row.selected]

\* What a session has prepared still fits the rows it read.
Prepared(c) ==
    /\ c.state # "idle" => c.txn \in Txn
    /\ c.state = "match_commit" => review[c.txn].status = "absent" /\ c.candidates \subseteq approved
    /\ c.state = "create_commit" =>
          /\ review[c.txn].status = "absent"
          /\ c.row.status = "open" /\ c.row.selected = None
          /\ SelectedIn(c.row, c.txn)
    /\ c.state = "review_commit" =>
          /\ review[c.txn].status \in {"open", "disputed"}
          /\ c.row.status \in ReviewStatus
          /\ c.row.run = review[c.txn].run
          /\ SelectedIn(c.row, c.txn)
          /\ c.row.status = "matched" => c.row.selected # None
          /\ c.action \in Action
          /\ ReviewAfter(Replayed(review[c.txn]), c.action) = Replayed(c.row)

SessionsPrepared == \A s \in Session : Prepared(session[s])

Invariant ==
    /\ TypeOK
    /\ OneHolder
    /\ RunsApproved
    /\ ReviewOnRun
    /\ SessionsPrepared
    /\ MatchIsOneToOne
    /\ ResolutionFollowsReview

-----------------------------------------------------------------------------

LEMMA RowsTyped ==
    /\ NoReview \in ReviewRow /\ Idle \in SessionRow
    /\ Idle.state = "idle" /\ NoReview.status = "absent"
  BY DEF NoReview, ReviewRow, Idle, SessionRow

LEMMA InvariantInit == Init => Invariant
<1> SUFFICES ASSUME Init PROVE Invariant
  OBVIOUS
<1>1. TypeOK
  BY RowsTyped DEF Init, TypeOK
<1>2. OneHolder /\ SessionsPrepared
  BY RowsTyped DEF Init, OneHolder, HoldsTxn, SessionsPrepared, Prepared
<1>3. RunsApproved /\ ReviewOnRun
  BY RowsTyped DEF Init, RunsApproved, ReviewOnRun
<1>4. MatchIsOneToOne /\ ResolutionFollowsReview
  BY RowsTyped DEF Init, MatchIsOneToOne, ResolutionFollowsReview, Terminal
<1> QED
  BY <1>1, <1>2, <1>3, <1>4 DEF Invariant

\* A request that gets its lock keeps the invariant when it prepares rows that fit.
LEMMA RequestStep ==
    ASSUME Invariant, NEW s \in Session, NEW t \in Txn, NEW c \in SessionRow,
           TxnUnlocked(t), c.txn = t, Prepared(c),
           session' = [session EXCEPT ![s] = c],
           UNCHANGED <<imported, approved, runs, review, outcomes, actions>>
    PROVE  Invariant'
<1> USE DEF Invariant
<1>1. /\ session' \in [Session -> SessionRow]
      /\ session'[s] = c
      /\ \A u \in Session : u # s => session'[u] = session[u]
  BY DEF TypeOK
<1>2. TypeOK'
  BY <1>1 DEF TypeOK
<1>3. OneHolder'
  BY <1>1 DEF OneHolder, HoldsTxn, TxnUnlocked
<1>4. RunsApproved' /\ ReviewOnRun'
  BY DEF RunsApproved, ReviewOnRun, SelectedIn
<1>5. SessionsPrepared'
  BY <1>1 DEF SessionsPrepared, Prepared, SelectedIn
<1>6. MatchIsOneToOne'
  BY DEF MatchIsOneToOne
<1>7. ResolutionFollowsReview'
  BY DEF ResolutionFollowsReview, HasOutcome, InReviewedRun
<1> QED
  BY <1>2, <1>3, <1>4, <1>5, <1>6, <1>7

\* A session that ends leaves the others as prepared as they were, if it only
\* changed rows of the transaction it held.
LEMMA EndStep ==
    ASSUME Invariant, NEW s \in Session, session[s].state # "idle",
           session' = [session EXCEPT ![s] = Idle],
           approved' = approved,
           \A u \in Txn \ {session[s].txn} : review'[u] = review[u] /\ runs'[u] = runs[u]
    PROVE  OneHolder' /\ SessionsPrepared' /\ session' \in [Session -> SessionRow]
<1> USE DEF Invariant
<1>1. /\ session' \in [Session -> SessionRow]
      /\ session'[s] = Idle
      /\ \A u \in Session : u # s => session'[u] = session[u]
  BY RowsTyped DEF TypeOK
<1>2. OneHolder'
  BY <1>1, RowsTyped DEF OneHolder, HoldsTxn
<1>3. ASSUME NEW u \in Session PROVE Prepared(session[u])'
  <2>1. CASE u = s \/ session[u].state = "idle"
    BY <1>1, <2>1, RowsTyped DEF Prepared
  <2>2. CASE u # s /\ session[u].state # "idle"
    <3>1. session'[u] = session[u] /\ session[u].txn \in Txn \ {session[s].txn}
      BY <1>1, <2>2 DEF OneHolder, HoldsTxn, SessionsPrepared, Prepared
    <3>2. /\ review'[session[u].txn] = review[session[u].txn]
          /\ runs'[session[u].txn] = runs[session[u].txn]
      BY <3>1
    <3>3. Prepared(session[u])
      BY DEF SessionsPrepared
    <3> QED
      BY <3>1, <3>2, <3>3 DEF Prepared, SelectedIn
  <2> QED
    BY <2>1, <2>2
<1> QED
  BY <1>1, <1>2, <1>3 DEF SessionsPrepared

\* A review operation that gets its lock and passes its checks keeps the invariant.
LEMMA ChangeStep ==
    ASSUME Invariant, NEW s \in Session, NEW t \in Txn, NEW row \in ReviewRow,
           NEW type \in ActionType, NEW o \in Outcome \cup {None},
           LockAndChange(s, t, row, type, o),
           review[t].status \in {"open", "disputed"},
           row.status \in ReviewStatus, row.run = review[t].run, SelectedIn(row, t),
           row.status = "matched" => row.selected # None,
           ReviewAfter(Replayed(review[t]), [type |-> type, candidate |-> o]) = Replayed(row)
    PROVE  Invariant'
<1> DEFINE c == [Idle EXCEPT !.state = "review_commit", !.txn = t, !.row = row,
                             !.action = [type |-> type, candidate |-> o]]
<1>1. /\ c \in SessionRow /\ c.state = "review_commit" /\ c.txn = t /\ c.row = row
      /\ c.action = [type |-> type, candidate |-> o] /\ c.action \in Action
  BY RowsTyped DEF SessionRow, Idle, Action
<1>2. session' = [session EXCEPT ![s] = c]
  BY DEF LockAndChange
<1>3. TxnUnlocked(t) /\ UNCHANGED <<imported, approved, runs, review, outcomes, actions>>
  BY DEF LockAndChange
<1> HIDE DEF c
<1>4. Prepared(c)
  BY <1>1 DEF Prepared
<1> QED
  BY <1>1, <1>2, <1>3, <1>4, RequestStep

\* The five ways a review goes on, and what they keep of its row.
LEMMA ReviewOperationStep ==
    ASSUME Invariant, NEW s \in Session, NEW t \in Txn,
           \/ \E o \in Outcome : SelectCandidate(s, t, o)
           \/ Dispute(s, t) \/ Reopen(s, t) \/ ApproveMatch(s, t) \/ MarkUnmatched(s, t)
    PROVE  Invariant'
<1>1. review[t] \in ReviewRow
  BY DEF Invariant, TypeOK
<1>2. review[t].status # "absent" => SelectedIn(review[t], t)
  BY DEF Invariant, ReviewOnRun
<1>3. ASSUME NEW o \in Outcome, SelectCandidate(s, t, o) PROVE Invariant'
  <2> DEFINE row == [review[t] EXCEPT !.selected = o]
  <2>1. /\ row \in ReviewRow /\ row.status = review[t].status
        /\ row.run = review[t].run /\ row.selected = o
    BY <1>1 DEF ReviewRow
  <2>2. /\ LockAndChange(s, t, row, "candidate_selected", o)
        /\ review[t].status = "open" /\ o \in runs[t][review[t].run]
    BY <1>3 DEF SelectCandidate, InReviewedRun
  <2>3. ReviewAfter(Replayed(review[t]), [type |-> "candidate_selected", candidate |-> o])
            = [status |-> "open", selected |-> o]
    BY <2>2 DEF ReviewAfter, Replayed
  <2> HIDE DEF row
  <2> QED
    BY <1>2, <2>1, <2>2, <2>3, ChangeStep DEF SelectedIn, ActionType, ReviewStatus, Replayed
<1> DEFINE row(status) == [review[t] EXCEPT !.status = status]
<1>4. \A status \in ReviewStatus :
         /\ row(status) \in ReviewRow /\ row(status).status = status
         /\ row(status).run = review[t].run /\ row(status).selected = review[t].selected
         /\ review[t].status # "absent" => SelectedIn(row(status), t)
         /\ Replayed(row(status)) = [status |-> status, selected |-> review[t].selected]
  BY <1>1, <1>2 DEF ReviewRow, SelectedIn, Replayed
<1>5. review[t].selected \in Outcome \cup {None}
  BY <1>1 DEF ReviewRow
<1>6. CASE Dispute(s, t)
  <2>1. LockAndChange(s, t, row("disputed"), "disputed", review[t].selected) /\ review[t].status = "open"
    BY <1>6 DEF Dispute
  <2>2. ReviewAfter(Replayed(review[t]), [type |-> "disputed", candidate |-> review[t].selected])
            = [status |-> "disputed", selected |-> review[t].selected]
    BY <2>1 DEF ReviewAfter, Replayed
  <2> HIDE DEF row
  <2> QED
    BY <1>4, <1>5, <2>1, <2>2, ChangeStep DEF ActionType, ReviewStatus
<1>7. CASE Reopen(s, t)
  <2>1. LockAndChange(s, t, row("open"), "reopened", review[t].selected) /\ review[t].status = "disputed"
    BY <1>7 DEF Reopen
  <2>2. ReviewAfter(Replayed(review[t]), [type |-> "reopened", candidate |-> review[t].selected])
            = [status |-> "open", selected |-> review[t].selected]
    BY <2>1 DEF ReviewAfter, Replayed
  <2> HIDE DEF row
  <2> QED
    BY <1>4, <1>5, <2>1, <2>2, ChangeStep DEF ActionType, ReviewStatus
<1>8. CASE ApproveMatch(s, t)
  <2>1. /\ LockAndChange(s, t, row("matched"), "approved_match", review[t].selected)
        /\ review[t].status = "open" /\ review[t].selected # None
    BY <1>8 DEF ApproveMatch
  <2>2. ReviewAfter(Replayed(review[t]), [type |-> "approved_match", candidate |-> review[t].selected])
            = [status |-> "matched", selected |-> review[t].selected]
    BY <2>1 DEF ReviewAfter, Replayed
  <2> HIDE DEF row
  <2> QED
    BY <1>4, <1>5, <2>1, <2>2, ChangeStep DEF ActionType, ReviewStatus
<1>9. CASE MarkUnmatched(s, t)
  <2>1. /\ LockAndChange(s, t, row("unmatched"), "marked_unmatched", review[t].selected)
        /\ review[t].status \in {"open", "disputed"}
    BY <1>9 DEF MarkUnmatched, ReviewStatus, Terminal
  <2>2. ReviewAfter(Replayed(review[t]), [type |-> "marked_unmatched", candidate |-> review[t].selected])
            = [status |-> "unmatched", selected |-> review[t].selected]
    BY <2>1 DEF ReviewAfter, Replayed
  <2> HIDE DEF row
  <2> QED
    BY <1>4, <1>5, <2>1, <2>2, ChangeStep DEF ActionType, ReviewStatus
<1> QED
  BY <1>3, <1>6, <1>7, <1>8, <1>9

LEMMA GenerateStep ==
    ASSUME Invariant, NEW s \in Session, NEW t \in Txn, GenerateMatchRun(s, t)
    PROVE  Invariant'
<1> DEFINE c == [Idle EXCEPT !.state = "match_commit", !.txn = t, !.candidates = Candidates(t)]
<1>1. /\ c \in SessionRow /\ c.state = "match_commit" /\ c.txn = t
      /\ c.candidates = Candidates(t) /\ Candidates(t) \subseteq approved
  BY RowsTyped, EligibleAssumption DEF SessionRow, Idle, Candidates
<1>2. /\ session' = [session EXCEPT ![s] = c] /\ TxnUnlocked(t) /\ review[t].status = "absent"
      /\ UNCHANGED <<imported, approved, runs, review, outcomes, actions>>
  BY DEF GenerateMatchRun
<1> HIDE DEF c
<1>3. Prepared(c)
  BY <1>1, <1>2 DEF Prepared
<1> QED
  BY <1>1, <1>2, <1>3, RequestStep

LEMMA CreateStep ==
    ASSUME Invariant, NEW s \in Session, NEW t \in Txn, NEW i \in 1 .. MaxRuns, CreateReview(s, t, i)
    PROVE  Invariant'
<1> DEFINE row == [status |-> "open", run |-> i, selected |-> None]
           c == [Idle EXCEPT !.state = "create_commit", !.txn = t, !.row = row]
<1>1. i \in Nat
  BY BoundsAssumption
<1>2. /\ c \in SessionRow /\ c.state = "create_commit" /\ c.txn = t
      /\ c.row.status = "open" /\ c.row.selected = None /\ c.row.run = i
  BY <1>1, RowsTyped DEF SessionRow, ReviewRow, ReviewStatus, Idle
<1>3. /\ session' = [session EXCEPT ![s] = c] /\ TxnUnlocked(t) /\ review[t].status = "absent"
      /\ i \in DOMAIN runs[t]
      /\ UNCHANGED <<imported, approved, runs, review, outcomes, actions>>
  BY DEF CreateReview
<1> HIDE DEF c
<1>4. Prepared(c)
  BY <1>2, <1>3 DEF Prepared, SelectedIn
<1> QED
  BY <1>2, <1>3, <1>4, RequestStep

\* A new match run only adds candidates that are approved, and to a transaction
\* that has no review.
LEMMA MatchCommitStep ==
    ASSUME Invariant, NEW s \in Session, MatchCommit(s)
    PROVE  Invariant'
<1> USE DEF Invariant
<1> DEFINE t == session[s].txn
           new == session[s].candidates
<1>1. /\ session[s].state = "match_commit" /\ session' = [session EXCEPT ![s] = Idle]
      /\ runs' = [runs EXCEPT ![t] = Append(@, new)]
      /\ UNCHANGED <<imported, approved, review, outcomes, actions>>
  BY DEF MatchCommit
<1>2. /\ t \in Txn /\ review[t].status = "absent" /\ new \subseteq approved /\ new \subseteq Outcome
      /\ runs[t] \in Seq(SUBSET Outcome)
  BY <1>1 DEF SessionsPrepared, Prepared, TypeOK, SessionRow
<1> HIDE DEF t, new
<1>3. /\ runs' \in [Txn -> Seq(SUBSET Outcome)]
      /\ runs'[t] = Append(runs[t], new)
      /\ \A u \in Txn \ {t} : runs'[u] = runs[u]
  BY <1>1, <1>2 DEF TypeOK
<1>4. OneHolder' /\ SessionsPrepared' /\ session' \in [Session -> SessionRow]
  <2>1. \A u \in Txn \ {session[s].txn} : review'[u] = review[u] /\ runs'[u] = runs[u]
    BY <1>1, <1>3 DEF t
  <2> QED
    BY <1>1, <2>1, EndStep
<1>5. TypeOK'
  BY <1>1, <1>3, <1>4 DEF TypeOK
<1>6. \A u \in Txn : \A i \in DOMAIN runs'[u] :
         (i \in DOMAIN runs[u] /\ runs'[u][i] = runs[u][i]) \/ runs'[u][i] = new
  BY <1>2, <1>3
<1>7. RunsApproved'
  BY <1>1, <1>2, <1>6 DEF RunsApproved
<1>8. ReviewOnRun'
  BY <1>1, <1>2, <1>3 DEF ReviewOnRun, SelectedIn
<1>9. MatchIsOneToOne'
  BY <1>1 DEF MatchIsOneToOne
<1>10. ResolutionFollowsReview'
  <2>1. \A p \in outcomes : p.txn \in Txn /\ p.type \in Terminal
    BY DEF TypeOK, ReconciliationOutcome
  <2>2. \A p \in outcomes : p.txn \in Txn \ {t}
    BY <1>2, <2>1 DEF ResolutionFollowsReview, Terminal
  <2> QED
    BY <1>1, <1>3, <2>2 DEF ResolutionFollowsReview, HasOutcome, InReviewedRun
<1> QED
  BY <1>4, <1>5, <1>7, <1>8, <1>9, <1>10

\* The review that a session opens; behind the lock the unique constraint on
\* the transaction is never met.
LEMMA CreateCommitStep ==
    ASSUME Invariant, NEW s \in Session, CreateCommit(s)
    PROVE  Invariant'
<1> USE DEF Invariant
<1> DEFINE t == session[s].txn
           row == session[s].row
<1>1. /\ session[s].state = "create_commit" /\ session' = [session EXCEPT ![s] = Idle]
      /\ UNCHANGED <<imported, approved, runs, outcomes, actions>>
  BY DEF CreateCommit
<1>2. /\ t \in Txn /\ review[t].status = "absent" /\ row \in ReviewRow
      /\ row.status = "open" /\ row.selected = None /\ SelectedIn(row, t)
  BY <1>1 DEF SessionsPrepared, Prepared, TypeOK, SessionRow
<1>3. review' = [review EXCEPT ![t] = row]
  BY <1>2 DEF CreateCommit
<1> HIDE DEF t, row
<1>4. /\ review' \in [Txn -> ReviewRow] /\ review'[t] = row
      /\ \A u \in Txn \ {t} : review'[u] = review[u]
  BY <1>2, <1>3 DEF TypeOK
<1>5. OneHolder' /\ SessionsPrepared' /\ session' \in [Session -> SessionRow]
  <2>1. \A u \in Txn \ {session[s].txn} : review'[u] = review[u] /\ runs'[u] = runs[u]
    BY <1>1, <1>4 DEF t
  <2> QED
    BY <1>1, <2>1, EndStep
<1>6. TypeOK'
  BY <1>1, <1>4, <1>5 DEF TypeOK
<1>7. RunsApproved'
  BY <1>1 DEF RunsApproved
<1>8. ReviewOnRun'
  BY <1>1, <1>2, <1>4 DEF ReviewOnRun, SelectedIn
<1>9. MatchIsOneToOne'
  BY <1>1 DEF MatchIsOneToOne
<1>10. ResolutionFollowsReview'
  <2>1. \A p \in outcomes : p.txn \in Txn /\ p.type \in Terminal
    BY DEF TypeOK, ReconciliationOutcome
  <2>2. \A p \in outcomes : p.txn \in Txn \ {t}
    BY <1>2, <2>1 DEF ResolutionFollowsReview, Terminal
  <2> QED
    BY <1>1, <1>2, <1>4, <2>2 DEF ResolutionFollowsReview, HasOutcome, InReviewedRun, Terminal
<1> QED
  BY <1>5, <1>6, <1>7, <1>8, <1>9, <1>10

\* What a commit of a review that no unique constraint refuses does.
Accepted(s) ==
    ~(session[s].row.status \in Terminal /\ Conflicts(NewOutcome(s)))

LEMMA ReviewCommitEffect ==
    ASSUME Invariant, NEW s \in Session, ReviewCommit(s),
           NEW t, t = session[s].txn, NEW row, row = session[s].row
    PROVE  /\ session[s].state = "review_commit" /\ session' = [session EXCEPT ![s] = Idle]
           /\ UNCHANGED <<imported, approved, runs>>
           /\ t \in Txn /\ row \in ReviewRow /\ review[t].status \in {"open", "disputed"}
           /\ row.status \in ReviewStatus /\ row.run = review[t].run /\ SelectedIn(row, t)
           /\ row.status = "matched" => row.selected # None
           /\ session[s].action \in Action
           /\ ReviewAfter(Replayed(review[t]), session[s].action) = Replayed(row)
           /\ ~Accepted(s) => UNCHANGED <<review, actions, outcomes>>
           /\ Accepted(s) =>
                 /\ review' = [review EXCEPT ![t] = row]
                 /\ actions' = [actions EXCEPT ![t] = Append(@, session[s].action)]
                 /\ outcomes' = IF row.status \in Terminal THEN outcomes \cup {NewOutcome(s)}
                                                           ELSE outcomes
<1>1. /\ session[s].state = "review_commit" /\ session' = [session EXCEPT ![s] = Idle]
      /\ UNCHANGED <<imported, approved, runs>>
  BY DEF ReviewCommit
<1>2. row \in ReviewRow
  BY DEF Invariant, TypeOK, SessionRow
<1>3. /\ t \in Txn /\ review[t].status \in {"open", "disputed"}
      /\ row.status \in ReviewStatus /\ row.run = review[t].run /\ SelectedIn(row, t)
      /\ row.status = "matched" => row.selected # None
      /\ session[s].action \in Action
      /\ ReviewAfter(Replayed(review[t]), session[s].action) = Replayed(row)
  BY <1>1 DEF Invariant, SessionsPrepared, Prepared
<1>4. /\ ~Accepted(s) => UNCHANGED <<review, actions, outcomes>>
      /\ Accepted(s) =>
            /\ review' = [review EXCEPT ![t] = row]
            /\ actions' = [actions EXCEPT ![t] = Append(@, session[s].action)]
            /\ outcomes' = IF row.status \in Terminal THEN outcomes \cup {NewOutcome(s)}
                                                      ELSE outcomes
  BY DEF ReviewCommit, Accepted
<1> QED
  BY <1>1, <1>2, <1>3, <1>4

\* The outcome that goes with a terminal row.
LEMMA NewOutcomeValue ==
    ASSUME Invariant, NEW s \in Session, session[s].row.status \in Terminal,
           session[s].txn \in Txn
    PROVE  /\ NewOutcome(s) \in ReconciliationOutcome
           /\ NewOutcome(s).txn = session[s].txn
           /\ NewOutcome(s).type = session[s].row.status
           /\ NewOutcome(s).matched =
                 IF session[s].row.status = "matched" THEN session[s].row.selected ELSE None
  BY DEF Invariant, TypeOK, SessionRow, ReviewRow, NewOutcome, ReconciliationOutcome

\* The review, its action and its outcome are committed together, or not at all.
LEMMA ReviewCommitStep ==
    ASSUME Invariant, NEW s \in Session, ReviewCommit(s)
    PROVE  Invariant'
<1> USE DEF Invariant
<1> DEFINE t == session[s].txn
           row == session[s].row
           new == NewOutcome(s)
<1>1. /\ session[s].state = "review_commit" /\ session' = [session EXCEPT ![s] = Idle]
      /\ UNCHANGED <<imported, approved, runs>>
      /\ t \in Txn /\ row \in ReviewRow /\ review[t].status \in {"open", "disputed"}
      /\ row.status \in ReviewStatus /\ row.run = review[t].run /\ SelectedIn(row, t)
      /\ row.status = "matched" => row.selected # None
      /\ session[s].action \in Action
      /\ ~Accepted(s) => UNCHANGED <<review, actions, outcomes>>
      /\ Accepted(s) =>
            /\ review' = [review EXCEPT ![t] = row]
            /\ actions' = [actions EXCEPT ![t] = Append(@, session[s].action)]
            /\ outcomes' = IF row.status \in Terminal THEN outcomes \cup {new} ELSE outcomes
  BY ReviewCommitEffect
<1>2. row.status \in Terminal =>
         /\ new \in ReconciliationOutcome /\ new.txn = t /\ new.type = row.status
         /\ new.matched = IF row.status = "matched" THEN row.selected ELSE None
  BY <1>1, NewOutcomeValue
<1>3. \A u \in Txn \ {session[s].txn} : review'[u] = review[u] /\ runs'[u] = runs[u]
  BY <1>1 DEF TypeOK
<1>4. OneHolder' /\ SessionsPrepared' /\ session' \in [Session -> SessionRow]
  BY <1>1, <1>3, EndStep
<1>5. RunsApproved'
  BY <1>1 DEF RunsApproved
<1>6. CASE ~Accepted(s)
  <2>1. TypeOK' /\ ReviewOnRun' /\ MatchIsOneToOne' /\ ResolutionFollowsReview'
    BY <1>1, <1>4, <1>6 DEF TypeOK, ReviewOnRun, SelectedIn, MatchIsOneToOne,
                            ResolutionFollowsReview, HasOutcome, InReviewedRun
  <2> QED
    BY <1>4, <1>5, <2>1
<1>7. CASE Accepted(s)
  <2>1. row.status \in Terminal =>
           \A p \in outcomes : p.txn # t /\ (new.matched # None => p.matched # new.matched)
    BY <1>2, <1>7 DEF Accepted, Conflicts
  <2> HIDE DEF t, row, new
  <2>2. /\ review' \in [Txn -> ReviewRow] /\ review'[t] = row
        /\ \A u \in Txn \ {t} : review'[u] = review[u]
    BY <1>1, <1>7 DEF TypeOK
  <2>3. outcomes' \subseteq outcomes \cup {new} /\ outcomes \subseteq outcomes'
    BY <1>1, <1>7
  <2>4. outcomes' = outcomes \/ (row.status \in Terminal /\ outcomes' = outcomes \cup {new})
    BY <1>1, <1>7
  <2>5. TypeOK'
    <3>1. outcomes' \subseteq ReconciliationOutcome
      BY <1>2, <2>4 DEF TypeOK
    <3>2. actions' \in [Txn -> Seq(Action)]
      <4>1. actions' = [actions EXCEPT ![t] = Append(actions[t], session[s].action)]
        BY <1>1, <1>7
      <4>2. Append(actions[t], session[s].action) \in Seq(Action)
        BY <1>1 DEF TypeOK
      <4> QED
        BY <4>1, <4>2 DEF TypeOK
    <3> QED
      BY <1>1, <1>4, <2>2, <3>1, <3>2 DEF TypeOK
  <2>6. ReviewOnRun'
    BY <1>1, <2>2 DEF ReviewOnRun, SelectedIn, ReviewStatus
  <2>7. MatchIsOneToOne'
    BY <1>2, <2>1, <2>4 DEF MatchIsOneToOne
  <2>8. ResolutionFollowsReview'
    <3>1. \A p \in outcomes : p.txn \in Txn \ {t}
      BY <1>1 DEF TypeOK, ReconciliationOutcome, ResolutionFollowsReview, Terminal
    <3>2. ASSUME NEW u \in Txn, review'[u].status \in Terminal PROVE HasOutcome(u)'
      <4>1. CASE u = t
        BY <1>1, <1>2, <1>7, <2>2, <3>2, <4>1 DEF HasOutcome
      <4>2. CASE u # t
        BY <2>2, <2>3, <3>2, <4>2 DEF HasOutcome, ResolutionFollowsReview
      <4> QED
        BY <4>1, <4>2
    <3>3. \A p \in outcomes :
             /\ review'[p.txn].status = p.type
             /\ p.type = "matched" =>
                   /\ p.matched = review'[p.txn].selected
                   /\ p.matched \in approved'
                   /\ p.matched \in runs'[p.txn][review'[p.txn].run]
             /\ p.type = "unmatched" => p.matched = None
      BY <1>1, <2>2, <3>1 DEF ResolutionFollowsReview, InReviewedRun
    <3>4. row.status \in Terminal =>
             /\ review'[new.txn].status = new.type
             /\ new.type = "matched" =>
                   /\ new.matched = review'[new.txn].selected
                   /\ new.matched \in approved'
                   /\ new.matched \in runs'[new.txn][review'[new.txn].run]
             /\ new.type = "unmatched" => new.matched = None
      BY <1>1, <1>2, <2>2 DEF SelectedIn, RunsApproved
    <3> QED
      BY <2>4, <3>2, <3>3, <3>4 DEF ResolutionFollowsReview, InReviewedRun
  <2> QED
    BY <1>4, <1>5, <2>5, <2>6, <2>7, <2>8
<1> QED
  BY <1>6, <1>7

\* Imports and approvals of other components only add rows.
LEMMA OtherStep ==
    ASSUME Invariant,
           \/ \E t \in Txn : ImportTransaction(t)
           \/ \E o \in Outcome : ApproveOutcome(o)
    PROVE  Invariant'
<1> USE DEF Invariant
<1>1. /\ imported' \subseteq Txn /\ approved' \subseteq Outcome /\ approved \subseteq approved'
      /\ UNCHANGED <<runs, review, outcomes, actions, session>>
  BY DEF ImportTransaction, ApproveOutcome, TypeOK
<1>2. TypeOK'
  BY <1>1 DEF TypeOK
<1>3. OneHolder' /\ RunsApproved' /\ ReviewOnRun' /\ MatchIsOneToOne'
  BY <1>1 DEF OneHolder, HoldsTxn, RunsApproved, ReviewOnRun, SelectedIn, MatchIsOneToOne
<1>4. SessionsPrepared'
  BY <1>1 DEF SessionsPrepared, Prepared, SelectedIn
<1>5. ResolutionFollowsReview'
  BY <1>1 DEF ResolutionFollowsReview, HasOutcome, InReviewedRun
<1> QED
  BY <1>2, <1>3, <1>4, <1>5

LEMMA RollbackStep ==
    ASSUME Invariant, NEW s \in Session, Rollback(s)
    PROVE  Invariant'
<1> USE DEF Invariant
<1>1. /\ session[s].state # "idle" /\ session' = [session EXCEPT ![s] = Idle]
      /\ UNCHANGED <<imported, approved, runs, review, outcomes, actions>>
  BY DEF Rollback
<1>2. OneHolder' /\ SessionsPrepared' /\ session' \in [Session -> SessionRow]
  BY <1>1, EndStep
<1>3. TypeOK' /\ RunsApproved' /\ ReviewOnRun' /\ MatchIsOneToOne'
  BY <1>1, <1>2 DEF TypeOK, RunsApproved, ReviewOnRun, SelectedIn, MatchIsOneToOne
<1>4. ResolutionFollowsReview'
  BY <1>1 DEF ResolutionFollowsReview, HasOutcome, InReviewedRun
<1> QED
  BY <1>2, <1>3, <1>4

LEMMA InvariantNext == Invariant /\ [Next]_vars => Invariant'
<1> SUFFICES ASSUME Invariant, [Next]_vars PROVE Invariant'
  OBVIOUS
<1>1. CASE UNCHANGED vars
  BY <1>1 DEF vars, Invariant, TypeOK, OneHolder, HoldsTxn, RunsApproved, ReviewOnRun,
              SelectedIn, SessionsPrepared, Prepared, MatchIsOneToOne,
              ResolutionFollowsReview, HasOutcome, InReviewedRun
<1>2. CASE Next
  BY <1>2, OtherStep, GenerateStep, CreateStep, ReviewOperationStep, MatchCommitStep,
     CreateCommitStep, ReviewCommitStep, RollbackStep DEF Next, Request
<1> QED
  BY <1>1, <1>2

\* All parts of the inductive invariant hold in every reachable state.
THEOREM InvariantHolds == Spec => []Invariant
  BY InvariantInit, InvariantNext, PTL DEF Spec

\* Every row, and what every open transaction carries, has its type.
THEOREM TypeCorrect == Spec => []TypeOK
<1>1. Invariant => TypeOK
  BY DEF Invariant
<1> QED
  BY <1>1, InvariantHolds, PTL

\* However many requests interleave and whatever rolls back, no accounting
\* outcome is reconciled with two bank transactions and no bank transaction is
\* resolved twice: the unique constraints that refuse the second commit suffice,
\* although approve_match reads both facts without a lock that covers them.
THEOREM MatchesCorrect == Spec => []MatchIsOneToOne
<1>1. Invariant => MatchIsOneToOne
  BY DEF Invariant
<1> QED
  BY <1>1, InvariantHolds, PTL

\* A review is terminal exactly when its outcome is recorded, and a match is
\* with the selected candidate of the run under review, approved accounting
\* evidence: nothing that a session read before it waited is stale at its commit.
THEOREM ResolutionCorrect == Spec => []ResolutionFollowsReview
<1>1. Invariant => ResolutionFollowsReview
  BY DEF Invariant
<1> QED
  BY <1>1, InvariantHolds, PTL

-----------------------------------------------------------------------------

\* Nothing but a commit changes a row of reconciliation.
LEMMA OnlyCommitsWrite ==
    ASSUME [Next]_vars
    PROVE  \/ UNCHANGED <<runs, review, outcomes, actions>>
           \/ \E s \in Session : MatchCommit(s) \/ CreateCommit(s) \/ ReviewCommit(s)
<1>1. ASSUME NEW s \in Session, Request(s) PROVE UNCHANGED <<runs, review, outcomes, actions>>
  BY <1>1 DEF Request, GenerateMatchRun, CreateReview, SelectCandidate, Dispute, Reopen,
              ApproveMatch, MarkUnmatched, LockAndChange
<1>2. ASSUME NEW s \in Session, Rollback(s) PROVE UNCHANGED <<runs, review, outcomes, actions>>
  BY <1>2 DEF Rollback
<1>3. ASSUME NEW t \in Txn, ImportTransaction(t) PROVE UNCHANGED <<runs, review, outcomes, actions>>
  BY <1>3 DEF ImportTransaction
<1>4. ASSUME NEW o \in Outcome, ApproveOutcome(o) PROVE UNCHANGED <<runs, review, outcomes, actions>>
  BY <1>4 DEF ApproveOutcome
<1>5. CASE UNCHANGED vars
  BY <1>5 DEF vars
<1> QED
  BY <1>1, <1>2, <1>3, <1>4, <1>5 DEF Next

-----------------------------------------------------------------------------
(* The evidence under a review. *)

LEMMA EvidenceStep == Invariant /\ [Next]_vars => [\A t \in Txn : KeepsEvidence(t)]_vars
<1> SUFFICES ASSUME Invariant, Next PROVE \A t \in Txn : KeepsEvidence(t)
  OBVIOUS
<1>1. runs \in [Txn -> Seq(SUBSET Outcome)] /\ review \in [Txn -> ReviewRow]
  BY DEF Invariant, TypeOK
<1>2. ASSUME NEW s \in Session, MatchCommit(s) PROVE \A t \in Txn : KeepsEvidence(t)
  <2> DEFINE u == session[s].txn
  <2>1. /\ u \in Txn /\ review[u].status = "absent"
        /\ runs' = [runs EXCEPT ![u] = Append(runs[u], session[s].candidates)] /\ review' = review
    BY <1>2 DEF MatchCommit, Invariant, SessionsPrepared, Prepared
  <2>2. runs[u] \in Seq(SUBSET Outcome) /\ session[s].candidates \in SUBSET Outcome
    BY <2>1 DEF Invariant, TypeOK, SessionRow
  <2> HIDE DEF u
  <2>3. /\ runs'[u] = Append(runs[u], session[s].candidates)
        /\ \A t \in Txn : t # u => runs'[t] = runs[t]
    BY <1>1, <2>1
  <2> QED
    BY <2>1, <2>2, <2>3 DEF KeepsEvidence
<1>3. ASSUME NEW s \in Session, CreateCommit(s) PROVE \A t \in Txn : KeepsEvidence(t)
  BY <1>1, <1>3 DEF CreateCommit, KeepsEvidence
<1>4. ASSUME NEW s \in Session, ReviewCommit(s) PROVE \A t \in Txn : KeepsEvidence(t)
  <2>1. PICK u, row : u = session[s].txn /\ row = session[s].row
    OBVIOUS
  <2>2. /\ u \in Txn /\ row.run = review[u].run /\ runs' = runs
        /\ review' = review \/ review' = [review EXCEPT ![u] = row]
    BY <1>4, <2>1, ReviewCommitEffect
  <2> QED
    BY <1>1, <2>2 DEF KeepsEvidence
<1>5. CASE UNCHANGED <<runs, review, outcomes, actions>>
  BY <1>5 DEF KeepsEvidence
<1> QED
  BY <1>2, <1>3, <1>4, <1>5, OnlyCommitsWrite

\* Match runs are never rewritten, and no step adds one under an open review or
\* moves the review to another run.
THEOREM EvidenceFrozen == Spec => EvidenceIsFrozen
  BY EvidenceStep, InvariantHolds, PTL DEF Spec, EvidenceIsFrozen

-----------------------------------------------------------------------------
(* Reconciliation implements MatchLedger. *)

\* How one outcome resolves its transaction.
ResolvedAs(p) == IF p.type = "matched" THEN p.matched ELSE "unmatched"

LEMMA ResolutionValue ==
    ASSUME Invariant, NEW t \in Txn
    PROVE  /\ ~HasOutcome(t) => Resolution[t] = "open"
           /\ \A p \in outcomes : p.txn = t => Resolution[t] = ResolvedAs(p)
<1>1. ASSUME NEW p \in outcomes, p.txn = t PROVE OutcomeOf(t) = p /\ HasOutcome(t)
  <2>1. \A q \in outcomes : q.txn = t => q = p
    BY <1>1 DEF Invariant, MatchIsOneToOne
  <2> QED
    BY <1>1, <2>1 DEF OutcomeOf, HasOutcome
<1> QED
  BY <1>1 DEF Resolution, ResolvedAs

LEMMA ResolutionRange ==
    ASSUME Invariant, NEW p \in outcomes
    PROVE  /\ p.txn \in Txn
           /\ p.type = "matched" => ResolvedAs(p) = p.matched /\ p.matched \in Outcome
           /\ p.type # "matched" => ResolvedAs(p) = "unmatched"
  BY DEF Invariant, TypeOK, ReconciliationOutcome, ResolutionFollowsReview, ResolvedAs

\* Recording an outcome of a transaction that has none resolves it.
LEMMA ResolutionStep ==
    ASSUME Invariant, NEW new, NEW t \in Txn, new.txn = t, ~HasOutcome(t),
           outcomes' = outcomes \cup {new}
    PROVE  Resolution' = [Resolution EXCEPT ![t] = ResolvedAs(new)]
<1>1. \A p \in outcomes : p.txn # t
  BY DEF HasOutcome
<1>2. HasOutcome(t)' /\ OutcomeOf(t)' = new
  <2>1. \A q \in outcomes' : q.txn = t => q = new
    BY <1>1
  <2> QED
    BY <2>1 DEF HasOutcome, OutcomeOf
<1>3. ASSUME NEW u \in Txn, u # t
      PROVE  HasOutcome(u)' = HasOutcome(u) /\ OutcomeOf(u)' = OutcomeOf(u)
  <2>1. \A q : (q \in outcomes' /\ q.txn = u) <=> (q \in outcomes /\ q.txn = u)
    BY <1>3
  <2>2. HasOutcome(u)' <=> HasOutcome(u)
    BY <2>1 DEF HasOutcome
  <2>3. OutcomeOf(u)' = OutcomeOf(u)
    BY <2>1 DEF OutcomeOf
  <2> QED
    BY <2>2, <2>3 DEF HasOutcome
<1>4. Resolution'[t] = ResolvedAs(new)
  BY <1>2 DEF Resolution, ResolvedAs
<1>5. \A u \in Txn : u # t => Resolution'[u] = Resolution[u]
  BY <1>3 DEF Resolution
<1> QED
  BY <1>4, <1>5 DEF Resolution

\* Every commit is a step of the ledger or leaves it alone.
LEMMA LedgerStep == Invariant /\ [Next]_vars => [Ledger!Resolve]_Resolution
<1> SUFFICES ASSUME Invariant, [Next]_vars, Resolution' # Resolution PROVE Ledger!Resolve
  OBVIOUS
<1>1. outcomes' # outcomes
  BY DEF Resolution, HasOutcome, OutcomeOf
<1>2. PICK s \in Session : ReviewCommit(s)
  BY <1>1, OnlyCommitsWrite DEF MatchCommit, CreateCommit
<1>3. PICK t, row, new : t = session[s].txn /\ row = session[s].row /\ new = NewOutcome(s)
  OBVIOUS
<1>4. /\ t \in Txn /\ Accepted(s) /\ row.status \in Terminal /\ outcomes' = outcomes \cup {new}
      /\ row.status = "matched" => row.selected # None
      /\ row \in ReviewRow
  BY <1>1, <1>2, <1>3, ReviewCommitEffect
<1>5. /\ new.txn = t /\ new.type = row.status
      /\ new.matched = IF row.status = "matched" THEN row.selected ELSE None
  BY <1>3, <1>4, NewOutcomeValue
<1>6. \A p \in outcomes : p.txn # t /\ (new.matched # None => p.matched # new.matched)
  BY <1>3, <1>4, <1>5 DEF Accepted, Conflicts
<1>7. ~HasOutcome(t)
  BY <1>6 DEF HasOutcome
<1>8. Resolution' = [Resolution EXCEPT ![t] = ResolvedAs(new)]
  BY <1>4, <1>5, <1>7, ResolutionStep
<1>9. Resolution[t] = "open"
  BY <1>4, <1>7, ResolutionValue
<1>10. CASE row.status = "unmatched"
  <2>1. ResolvedAs(new) = "unmatched"
    BY <1>5, <1>10 DEF ResolvedAs
  <2>2. Ledger!WriteOff(t)
    BY <1>8, <1>9, <2>1 DEF Ledger!WriteOff
  <2> QED
    BY <1>4, <2>2 DEF Ledger!Resolve
<1>11. CASE row.status = "matched"
  <2> DEFINE o == row.selected
  <2>1. o \in Outcome /\ new.matched = o /\ o # None /\ ResolvedAs(new) = o
    BY <1>4, <1>5, <1>11 DEF ReviewRow, ResolvedAs
  <2> HIDE DEF o
  <2>2. ASSUME NEW u \in Txn PROVE Resolution[u] # o
    <3>1. CASE HasOutcome(u)
      <4>1. PICK p \in outcomes : p.txn = u
        BY <3>1 DEF HasOutcome
      <4>2. Resolution[u] = ResolvedAs(p)
        BY <4>1, ResolutionValue
      <4>3. p.type = "matched" => ResolvedAs(p) = p.matched
        BY DEF ResolvedAs
      <4>4. p.type # "matched" => ResolvedAs(p) = "unmatched"
        BY DEF ResolvedAs
      <4> QED
        BY <1>6, <2>1, <4>2, <4>3, <4>4, MarksAssumption
    <3>2. CASE ~HasOutcome(u)
      BY <2>1, <3>2, ResolutionValue, MarksAssumption
    <3> QED
      BY <3>1, <3>2
  <2>3. Ledger!Match(t, o)
    BY <1>8, <1>9, <2>1, <2>2 DEF Ledger!Match, Ledger!Free
  <2> QED
    BY <1>4, <2>1, <2>3 DEF Ledger!Resolve
<1> QED
  BY <1>4, <1>10, <1>11 DEF Terminal

LEMMA LedgerInit == Init => Resolution = Ledger!Open
  BY DEF Init, Resolution, HasOutcome, Ledger!Open

\* What concurrent sessions commit is a behaviour of the ledger: a transaction
\* is resolved once and for ever, and only with an outcome that is still free.
THEOREM LedgerImplemented == Spec => ImplementsLedger
  BY LedgerInit, LedgerStep, InvariantHolds, PTL DEF Spec, ImplementsLedger, Ledger!Ledger

-----------------------------------------------------------------------------
(* The recorded actions of a review explain its row.                       *)

\* Induction up to a bound, as a fact about sets: the least number that is not
\* in S would follow one that is.
LEMMA BoundedInduction ==
    ASSUME NEW n \in Nat, NEW S, 0 \in S, \A k \in 1 .. n : k - 1 \in S => k \in S
    PROVE  \A k \in 0 .. n : k \in S
<1> SUFFICES ASSUME NEW bad \in 0 .. n, bad \notin S PROVE FALSE
  OBVIOUS
<1> DEFINE T == {k \in 0 .. n : k \notin S}
           R == OpToRel(<, Nat)
<1>1. IsWellFoundedOn(R, Nat)
  BY NatLessThanWellFounded
<1>2. \A x, y \in Nat : <<x, y>> \in R <=> x < y
  BY DEF OpToRel
<1>3. T \subseteq Nat /\ T # {}
  OBVIOUS
<1> HIDE DEF R
<1>4. PICK x \in T : \A y \in T : ~(<<y, x>> \in R)
  <2> HIDE DEF T
  <2> QED
    BY <1>1, <1>3, WFMin
<1>5. x \in 1 .. n /\ x \notin S /\ x - 1 \in 0 .. n /\ x - 1 < x /\ x \in Nat /\ x - 1 \in Nat
  OBVIOUS
<1>6. x - 1 \in T
  BY <1>5
<1>7. ~(<<x - 1, x>> \in R)
  BY <1>4, <1>6
<1>8. <<x - 1, x>> \in R <=> x - 1 < x
  BY <1>2, <1>5
<1> QED
  BY <1>5, <1>7, <1>8

\* What the replay of a sequence of actions satisfies.
IsReplay(f, acts) ==
    f = [n \in 0 .. Len(acts) |->
            IF n = 0 THEN [status |-> "open", selected |-> None]
                     ELSE ReviewAfter(f[n - 1], acts[n])]

LEMMA ReplayUnique ==
    ASSUME NEW acts \in Seq(Action), NEW f, IsReplay(f, acts)
    PROVE  Replay(acts)[Len(acts)] = f[Len(acts)]
<1> DEFINE g == Replay(acts)
           S == {n \in 0 .. Len(acts) : f[n] = g[n]}
<1>1. IsReplay(g, acts)
  BY DEF Replay, IsReplay
<1>2. Len(acts) \in Nat
  OBVIOUS
<1> HIDE DEF g
<1>3. 0 \in S
  BY <1>1, <1>2 DEF IsReplay
<1>4. ASSUME NEW k \in 1 .. Len(acts), k - 1 \in S PROVE k \in S
  <2>1. k \in 0 .. Len(acts) /\ k # 0
    BY <1>2
  <2>2. f[k] = ReviewAfter(f[k - 1], acts[k])
    BY <2>1 DEF IsReplay
  <2>3. g[k] = ReviewAfter(g[k - 1], acts[k])
    BY <1>1, <2>1 DEF IsReplay
  <2> QED
    BY <1>4, <2>1, <2>2, <2>3
<1> HIDE DEF S
<1>5. \A k \in 0 .. Len(acts) : k \in S
  BY <1>2, <1>3, <1>4, BoundedInduction
<1> QED
  BY <1>2, <1>5 DEF S, g

LEMMA ReplayEmpty ==
    /\ IsReplay([n \in 0 .. 0 |-> [status |-> "open", selected |-> None]], <<>>)
    /\ Len(<<>>) = 0
  BY DEF IsReplay

LEMMA ReplayAppend ==
    ASSUME NEW acts \in Seq(Action), NEW a \in Action, NEW f, IsReplay(f, acts)
    PROVE  \E g : /\ IsReplay(g, Append(acts, a))
                  /\ g[Len(Append(acts, a))] = ReviewAfter(f[Len(acts)], a)
<1> DEFINE l == Len(acts)
           g == [n \in 0 .. l + 1 |-> IF n = l + 1 THEN ReviewAfter(f[l], a) ELSE f[n]]
<1>1. l \in Nat /\ Len(Append(acts, a)) = l + 1
  OBVIOUS
<1>2. Append(acts, a)[l + 1] = a /\ \A n \in 1 .. l : Append(acts, a)[n] = acts[n]
  OBVIOUS
<1> HIDE DEF l
<1>3. ASSUME NEW n \in 0 .. l + 1
      PROVE  g[n] = IF n = 0 THEN [status |-> "open", selected |-> None]
                             ELSE ReviewAfter(g[n - 1], Append(acts, a)[n])
  <2>1. CASE n = l + 1
    BY <1>1, <1>2, <2>1
  <2>2. CASE n # l + 1
    <3>1. n \in 0 .. l /\ n - 1 # l + 1 /\ (n # 0 => n - 1 \in 0 .. l + 1 /\ n \in 1 .. l)
      BY <1>1, <2>2
    <3>2. f[n] = IF n = 0 THEN [status |-> "open", selected |-> None]
                          ELSE ReviewAfter(f[n - 1], acts[n])
      BY <3>1 DEF IsReplay, l
    <3>3. g[n] = f[n] /\ (n # 0 => g[n - 1] = f[n - 1])
      BY <2>2, <3>1
    <3> QED
      BY <1>2, <3>1, <3>2, <3>3
  <2> QED
    BY <2>1, <2>2
<1>4. IsReplay(g, Append(acts, a))
  <2> DEFINE h == [n \in 0 .. l + 1 |->
                      IF n = 0 THEN [status |-> "open", selected |-> None]
                               ELSE ReviewAfter(g[n - 1], Append(acts, a)[n])]
  <2>1. g = h
    BY <1>3
  <2> QED
    BY <1>1, <2>1 DEF IsReplay
<1>5. g[l + 1] = ReviewAfter(f[l], a)
  BY <1>1
<1> QED
  BY <1>1, <1>4, <1>5 DEF l

\* The row of t is what some replay of its actions ends in.
Explained(t) ==
    IF review[t].status = "absent"
      THEN actions[t] = <<>>
      ELSE \E f : IsReplay(f, actions[t]) /\ f[Len(actions[t])] = Replayed(review[t])

AllExplained == \A t \in Txn : Explained(t)

LEMMA ExplainedInit == Init => AllExplained
  BY RowsTyped DEF Init, AllExplained, Explained

LEMMA ExplainedNext == Invariant /\ AllExplained /\ [Next]_vars => AllExplained'
<1> SUFFICES ASSUME Invariant, AllExplained, [Next]_vars, NEW t \in Txn PROVE Explained(t)'
  BY DEF AllExplained
<1>1. actions \in [Txn -> Seq(Action)] /\ review \in [Txn -> ReviewRow] /\ Explained(t)
  BY DEF Invariant, TypeOK, AllExplained
<1>2. CASE review'[t] = review[t] /\ actions'[t] = actions[t]
  BY <1>1, <1>2 DEF Explained
<1>3. ASSUME NEW s \in Session, CreateCommit(s), review'[t] # review[t] PROVE Explained(t)'
  <2>1. /\ session[s].row.status = "open" /\ session[s].row.selected = None
        /\ review[t].status = "absent" /\ review'[t] = session[s].row /\ actions' = actions
    BY <1>1, <1>3 DEF CreateCommit, Invariant, SessionsPrepared, Prepared
  <2>2. actions'[t] = <<>> /\ Replayed(review'[t]) = [status |-> "open", selected |-> None]
    BY <1>1, <2>1 DEF Explained, Replayed
  <2> DEFINE f == [n \in 0 .. 0 |-> [status |-> "open", selected |-> None]]
  <2>3. IsReplay(f, actions'[t]) /\ f[Len(actions'[t])] = Replayed(review'[t])
    BY <2>2, ReplayEmpty
  <2> QED
    BY <2>1, <2>3 DEF Explained
<1>4. ASSUME NEW s \in Session, ReviewCommit(s), ~(review'[t] = review[t] /\ actions'[t] = actions[t])
      PROVE  Explained(t)'
  <2>1. PICK u, row, a : u = session[s].txn /\ row = session[s].row /\ a = session[s].action
    OBVIOUS
  <2>2. /\ u \in Txn /\ Accepted(s) /\ a \in Action /\ row.status \in ReviewStatus
        /\ review[u].status \in {"open", "disputed"}
        /\ review' = [review EXCEPT ![u] = row]
        /\ actions' = [actions EXCEPT ![u] = Append(@, a)]
        /\ ReviewAfter(Replayed(review[u]), a) = Replayed(row)
    BY <1>4, <2>1, ReviewCommitEffect
  <2>3. u = t
    BY <1>1, <1>4, <2>2
  <2>4. review'[t] = row /\ actions'[t] = Append(actions[t], a) /\ actions[t] \in Seq(Action)
    BY <1>1, <2>2, <2>3
  <2>5. PICK f : IsReplay(f, actions[t]) /\ f[Len(actions[t])] = Replayed(review[t])
    BY <1>1, <2>2, <2>3 DEF Explained
  <2>6. PICK g : /\ IsReplay(g, Append(actions[t], a))
                 /\ g[Len(Append(actions[t], a))] = ReviewAfter(f[Len(actions[t])], a)
    BY <2>2, <2>4, <2>5, ReplayAppend
  <2>7. IsReplay(g, actions'[t]) /\ g[Len(actions'[t])] = Replayed(review'[t])
    BY <2>2, <2>3, <2>4, <2>5, <2>6
  <2>8. review'[t].status # "absent"
    BY <2>2, <2>4 DEF ReviewStatus
  <2> QED
    BY <2>7, <2>8 DEF Explained
<1>5. ASSUME NEW s \in Session, MatchCommit(s) PROVE review' = review /\ actions' = actions
  BY <1>5 DEF MatchCommit
<1>6. ASSUME NEW s \in Session, CreateCommit(s) PROVE actions' = actions
  BY <1>6 DEF CreateCommit
<1> QED
  BY <1>2, <1>3, <1>4, <1>5, <1>6, OnlyCommitsWrite

\* For every sequence of operations on a review, by however many sessions, the
\* actions recorded are exactly the ones that lead to its row.
THEOREM ActionsCorrect == Spec => []ActionsReplay
<1>1. Invariant /\ AllExplained => ActionsReplay
  <2> SUFFICES ASSUME Invariant, AllExplained, NEW t \in Txn
               PROVE  IF review[t].status = "absent"
                        THEN actions[t] = <<>>
                        ELSE Replay(actions[t])[Len(actions[t])]
                                = [status |-> review[t].status, selected |-> review[t].selected]
    BY DEF ActionsReplay
  <2>1. Explained(t) /\ actions[t] \in Seq(Action)
    BY DEF AllExplained, Invariant, TypeOK
  <2>2. CASE review[t].status = "absent"
    BY <2>1, <2>2 DEF Explained
  <2>3. CASE review[t].status # "absent"
    <3>1. PICK f : IsReplay(f, actions[t]) /\ f[Len(actions[t])] = Replayed(review[t])
      BY <2>1, <2>3 DEF Explained
    <3>2. Replay(actions[t])[Len(actions[t])] = Replayed(review[t])
      BY <2>1, <3>1, ReplayUnique
    <3> QED
      BY <2>3, <3>2 DEF Replayed
  <2> QED
    BY <2>2, <2>3
<1>2. Spec => []AllExplained
  BY ExplainedInit, ExplainedNext, InvariantHolds, PTL DEF Spec
<1> QED
  BY <1>1, <1>2, InvariantHolds, PTL

-----------------------------------------------------------------------------
(* The work list: what the requests beside it keep true. *)

\* Only imported transactions are matched.
ImportedFirst ==
    /\ \A t \in Txn : runs[t] # <<>> => t \in imported
    /\ \A s \in Session : session[s].state = "match_commit" => session[s].txn \in imported

\* Rows are not taken back: reviews, outcomes and transactions stay.
RowsStay ==
    /\ imported \subseteq imported'
    /\ imported' # imported => UNCHANGED <<runs, review>>
    /\ outcomes \subseteq outcomes'
    /\ \A t \in Txn : review'[t].status = "absent" => review[t].status = "absent"

LEMMA RequestSession ==
    ASSUME TypeOK, NEW s \in Session, Request(s)
    PROVE  /\ \A u \in Session : u # s => session'[u] = session[u]
           /\ session'[s].state = "match_commit" => session'[s].txn \in imported
           /\ UNCHANGED <<imported, runs>>
<1>1. ASSUME NEW t \in Txn, GenerateMatchRun(s, t)
      PROVE  /\ session' = [session EXCEPT ![s] = session'[s]]
             /\ session'[s].txn \in imported /\ UNCHANGED <<imported, runs>>
  BY <1>1 DEF GenerateMatchRun, TypeOK, Idle
<1>2. ASSUME NEW t \in Txn, NEW i \in 1 .. MaxRuns, CreateReview(s, t, i)
      PROVE  /\ session' = [session EXCEPT ![s] = session'[s]]
             /\ session'[s].state = "create_commit" /\ UNCHANGED <<imported, runs>>
  BY <1>2 DEF CreateReview, TypeOK, Idle
<1>3. ASSUME NEW t \in Txn, NEW row, NEW type, NEW o, LockAndChange(s, t, row, type, o)
      PROVE  /\ session' = [session EXCEPT ![s] = session'[s]]
             /\ session'[s].state = "review_commit" /\ UNCHANGED <<imported, runs>>
  BY <1>3 DEF LockAndChange, TypeOK, Idle
<1>4. CASE \E t \in Txn : \/ \E o \in Outcome : SelectCandidate(s, t, o)
                          \/ Dispute(s, t) \/ Reopen(s, t) \/ ApproveMatch(s, t) \/ MarkUnmatched(s, t)
  <2>1. PICK t \in Txn : \E row, type, o : LockAndChange(s, t, row, type, o)
    BY <1>4 DEF SelectCandidate, Dispute, Reopen, ApproveMatch, MarkUnmatched
  <2> QED
    BY <1>3, <2>1 DEF TypeOK
<1> QED
  BY <1>1, <1>2, <1>4 DEF Request, TypeOK

LEMMA ImportedFirstNext ==
    ASSUME Invariant, ImportedFirst, [Next]_vars
    PROVE  ImportedFirst'
<1>1. TypeOK
  BY DEF Invariant
<1>2. ASSUME NEW s \in Session, Request(s) PROVE ImportedFirst'
  BY <1>1, <1>2, RequestSession DEF ImportedFirst
<1>3. ASSUME NEW s \in Session, MatchCommit(s) PROVE ImportedFirst'
  <2>1. /\ session[s].state = "match_commit" /\ session' = [session EXCEPT ![s] = Idle]
        /\ runs' = [runs EXCEPT ![session[s].txn] = Append(@, session[s].candidates)]
        /\ imported' = imported
    BY <1>3 DEF MatchCommit
  <2>2. /\ \A u \in Session : u # s => session'[u] = session[u]
        /\ session'[s].state = "idle"
    BY <1>1, <2>1, RowsTyped DEF TypeOK
  <2>3. \A t \in Txn : t # session[s].txn => runs'[t] = runs[t]
    BY <1>1, <2>1 DEF TypeOK
  <2> QED
    BY <2>1, <2>2, <2>3 DEF ImportedFirst
<1>4. ASSUME NEW s \in Session, CreateCommit(s) \/ ReviewCommit(s) \/ Rollback(s) PROVE ImportedFirst'
  <2>1. session' = [session EXCEPT ![s] = Idle] /\ UNCHANGED <<imported, runs>>
    BY <1>4 DEF CreateCommit, ReviewCommit, Rollback
  <2> QED
    BY <1>1, <2>1, RowsTyped DEF TypeOK, ImportedFirst
<1>5. CASE UNCHANGED vars
  BY <1>5 DEF vars, ImportedFirst
<1>6. ASSUME NEW t \in Txn, ImportTransaction(t) PROVE ImportedFirst'
  BY <1>6 DEF ImportTransaction, ImportedFirst
<1>7. ASSUME NEW o \in Outcome, ApproveOutcome(o) PROVE ImportedFirst'
  BY <1>7 DEF ApproveOutcome, ImportedFirst
<1> QED
  BY <1>2, <1>3, <1>4, <1>5, <1>6, <1>7 DEF Next

LEMMA RowsStayNext ==
    ASSUME Invariant, [Next]_vars
    PROVE  RowsStay
<1>1. imported \subseteq imported' /\ (imported' # imported => UNCHANGED <<runs, review>>)
  <2>1. ASSUME NEW s \in Session, Request(s) PROVE imported' = imported
    BY <2>1, RequestSession DEF Invariant
  <2>2. ASSUME NEW s \in Session, MatchCommit(s) \/ CreateCommit(s) \/ ReviewCommit(s) \/ Rollback(s)
        PROVE  imported' = imported
    BY <2>2 DEF MatchCommit, CreateCommit, ReviewCommit, Rollback
  <2> QED
    BY <2>1, <2>2 DEF Next, vars, ImportTransaction, ApproveOutcome
<1>2. CASE UNCHANGED <<runs, review, outcomes, actions>>
  BY <1>1, <1>2 DEF RowsStay
<1>3. ASSUME NEW s \in Session, MatchCommit(s) PROVE RowsStay
  BY <1>1, <1>3 DEF RowsStay, MatchCommit
<1>4. ASSUME NEW s \in Session, CreateCommit(s) PROVE RowsStay
  <2>1. outcomes' = outcomes /\ review' = [review EXCEPT ![session[s].txn] = review'[session[s].txn]]
    BY <1>4 DEF CreateCommit, Invariant, TypeOK
  <2>2. session[s].state = "create_commit" /\ review[session[s].txn].status = "absent"
    BY <1>4 DEF CreateCommit, Invariant, SessionsPrepared, Prepared
  <2> QED
    BY <1>1, <2>1, <2>2 DEF RowsStay, Invariant, TypeOK
<1>5. ASSUME NEW s \in Session, ReviewCommit(s) PROVE RowsStay
  <2>1. PICK u, row : u = session[s].txn /\ row = session[s].row
    OBVIOUS
  <2>2. /\ u \in Txn /\ row.status \in ReviewStatus /\ outcomes \subseteq outcomes'
        /\ review' = review \/ review' = [review EXCEPT ![u] = row]
    BY <1>5, <2>1, ReviewCommitEffect
  <2> QED
    BY <1>1, <2>2 DEF RowsStay, Invariant, TypeOK, ReviewStatus
<1> QED
  BY <1>2, <1>3, <1>4, <1>5, OnlyCommitsWrite

-----------------------------------------------------------------------------
(* The list. *)

WorkflowState == {"in_review", "disputed", "matched", "resolved_unmatched",
                  "not_evaluated", "unmatched", "candidates_available"}
Item == [txn : Txn, state : WorkflowState, outcome : SUBSET ReconciliationOutcome]

ListType ==
    list \in [phase : {"idle", "reviews", "outcomes", "transactions", "done"},
              latestRuns : [Txn -> (SUBSET Outcome) \cup {None}],
              reviews : [Txn -> ReviewRow],
              outcomes : SUBSET ReconciliationOutcome,
              items : SUBSET Item]

\* The state now is among the states since the request began.
SeenNow == list.phase # "idle" => \A t \in Txn : StateNow(t) \subseteq seen[t]

\* The review a list will show for t, as far as it has read.
ReviewRead(t) == IF list.phase = "reviews" THEN review[t] ELSE list.reviews[t]

\* What has been read already amounts to a state that was real, and says
\* nothing about a transaction that is not there yet.
ReadWasReal ==
    list.phase \in {"reviews", "outcomes", "transactions"} =>
        \A t \in Txn :
            IF t \in imported
              THEN ProjectWorkflowState(list.latestRuns[t], ReviewRead(t)) \in seen[t]
              ELSE list.latestRuns[t] = None /\ ReviewRead(t).status = "absent"

\* The outcome of a review that was read as resolved is committed, and read.
ReadOutcomes == IF list.phase = "outcomes" THEN outcomes ELSE list.outcomes
ReadResolved ==
    list.phase \in {"outcomes", "transactions"} =>
        \A t \in Txn :
            list.reviews[t].status \in Terminal =>
                \E p \in ReadOutcomes : p.txn = t /\ p.type = list.reviews[t].status

WorklistInvariant ==
    /\ Invariant
    /\ ImportedFirst
    /\ ListType
    /\ SeenNow
    /\ ReadWasReal
    /\ ReadResolved
    /\ ListedStateWasReal
    /\ ResolvedItemHasOutcome

\* The workflow state is a state, is the review's if there is one, and tells a
\* resolved transaction from the others.
LEMMA ProjectionValue ==
    ASSUME NEW run, NEW r, r.status \in ReviewStatus \cup {"absent"}
    PROVE  /\ ProjectWorkflowState(run, r) \in WorkflowState
           /\ \A run2 : r.status # "absent" =>
                 ProjectWorkflowState(run, r) = ProjectWorkflowState(run2, r)
           /\ \A r2 : r2.status = r.status =>
                 ProjectWorkflowState(run, r) = ProjectWorkflowState(run, r2)
           /\ ProjectWorkflowState(run, r) = "matched" <=> r.status = "matched"
           /\ ProjectWorkflowState(run, r) = "resolved_unmatched" <=> r.status = "unmatched"
           /\ r.status = "absent" /\ run = None => ProjectWorkflowState(run, r) = "not_evaluated"
  BY DEF ProjectWorkflowState, ReviewStatus, WorkflowState

\* The state of an imported transaction, and that a review is about one.
StateFacts ==
    \A t \in Txn :
        /\ review[t] \in ReviewRow
        /\ review[t].status # "absent" => t \in imported
        /\ t \in imported =>
              /\ \A run : review[t].status # "absent" =>
                    StateNow(t) = {ProjectWorkflowState(run, review[t])}
              /\ runs[t] = <<>> => StateNow(t) = {ProjectWorkflowState(None, review[t])}
              /\ runs[t] # <<>> =>
                    StateNow(t) = {ProjectWorkflowState(runs[t][Len(runs[t])], review[t])}
        /\ t \notin imported =>
              runs[t] = <<>> /\ review[t].status = "absent" /\ StateNow(t) = {}

LEMMA StateNowValue == Invariant /\ ImportedFirst => StateFacts
<1> SUFFICES ASSUME Invariant, ImportedFirst, NEW t \in Txn
             PROVE  StateFacts!(t)
  BY DEF StateFacts
<1>1. review[t] \in ReviewRow /\ review[t].status \in ReviewStatus \cup {"absent"}
  BY DEF Invariant, TypeOK, ReviewRow
<1>2. review[t].status # "absent" => runs[t] # <<>>
  BY DEF Invariant, ReviewOnRun, SelectedIn
<1>3. runs[t] # <<>> => t \in imported
  BY DEF ImportedFirst
<1> QED
  BY <1>1, <1>2, <1>3, ProjectionValue DEF StateNow

LEMMA WorklistInvariantInit == WorklistInit => WorklistInvariant
<1> SUFFICES ASSUME WorklistInit PROVE WorklistInvariant
  OBVIOUS
<1>1. Invariant
  BY InvariantInit DEF WorklistInit
<1>2. ImportedFirst
  BY RowsTyped DEF WorklistInit, Init, ImportedFirst
<1>3. ListType /\ list.phase = "idle"
  BY RowsTyped DEF WorklistInit, NotListing, ListType
<1> QED
  BY <1>1, <1>2, <1>3 DEF WorklistInvariant, SeenNow, ReadWasReal, ReadResolved,
                          ListedStateWasReal, ResolvedItemHasOutcome

\* A step of another request, while a list is being put together or not.
LEMMA ChangeKeeps ==
    ASSUME WorklistInvariant, Change \/ UNCHANGED allVars
    PROVE  WorklistInvariant'
<1> USE DEF WorklistInvariant
<1>1. /\ [Next]_vars /\ list' = list
      /\ \A t \in Txn : list.phase # "idle" =>
            seen[t] \subseteq seen'[t] /\ StateNow(t)' \subseteq seen'[t]
  <2>1. CASE Change
    BY <2>1 DEF Change
  <2>2. CASE UNCHANGED allVars
    <3>1. \A t : StateNow(t)' = StateNow(t)
      BY <2>2 DEF allVars, vars, StateNow
    <3> QED
      BY <2>2, <3>1 DEF allVars, vars, SeenNow
  <2> QED
    BY <2>1, <2>2
<1>2. Invariant' /\ ImportedFirst' /\ RowsStay
  BY <1>1, InvariantNext, ImportedFirstNext, RowsStayNext
<1>3. StateFacts
  BY StateNowValue
<1>4. Invariant' /\ ImportedFirst' => StateFacts'
  BY StateNowValue, PTL
<1>5. ListType' /\ SeenNow'
  BY <1>1 DEF ListType, SeenNow
<1>6. ListedStateWasReal'
  BY <1>1 DEF ListedStateWasReal, ListType, Item
<1>7. ResolvedItemHasOutcome'
  BY <1>1 DEF ResolvedItemHasOutcome
<1>8. ReadResolved'
  <2>1. ReadOutcomes \subseteq ReadOutcomes'
    BY <1>1, <1>2 DEF ReadOutcomes, RowsStay
  <2> QED
    BY <1>1, <2>1 DEF ReadResolved
<1>9. ReadWasReal'
  <2> SUFFICES ASSUME list.phase \in {"reviews", "outcomes", "transactions"}, NEW t \in Txn
               PROVE  IF t \in imported'
                        THEN ProjectWorkflowState(list.latestRuns[t], ReviewRead(t)') \in seen'[t]
                        ELSE list.latestRuns[t] = None /\ ReviewRead(t)'.status = "absent"
    BY <1>1 DEF ReadWasReal
  <2>1. IF t \in imported
          THEN ProjectWorkflowState(list.latestRuns[t], ReviewRead(t)) \in seen[t]
          ELSE list.latestRuns[t] = None /\ ReviewRead(t).status = "absent"
    BY DEF ReadWasReal
  <2>2. seen[t] \subseteq seen'[t] /\ StateNow(t)' \subseteq seen'[t]
    BY <1>1
  <2>3. ReviewRead(t)'.status \in ReviewStatus \cup {"absent"}
    BY <1>1, <1>2, <1>4 DEF ReviewRead, ListType, ReviewRow, StateFacts
  <2>4. CASE list.phase = "reviews" /\ review'[t].status # "absent"
    <3>1. ReviewRead(t)' = review'[t]
      BY <1>1, <2>4 DEF ReviewRead
    <3>2. t \in imported' /\ StateNow(t)' = {ProjectWorkflowState(list.latestRuns[t], review'[t])}
      BY <1>2, <1>4, <2>4 DEF StateFacts
    <3> QED
      BY <2>2, <3>1, <3>2
  <2>5. CASE ~(list.phase = "reviews" /\ review'[t].status # "absent")
    <3>1. ReviewRead(t)'.status = ReviewRead(t).status
      BY <1>1, <1>2, <2>5 DEF ReviewRead, RowsStay
    <3>2. ProjectWorkflowState(list.latestRuns[t], ReviewRead(t)')
            = ProjectWorkflowState(list.latestRuns[t], ReviewRead(t))
      BY <2>3, <3>1, ProjectionValue
    <3>3. CASE t \in imported
      BY <1>2, <2>1, <2>2, <3>2, <3>3 DEF RowsStay
    <3>4. CASE t \notin imported'
      BY <1>2, <2>1, <3>1, <3>4 DEF RowsStay
    <3>5. CASE t \notin imported /\ t \in imported'
      <4>1. ReviewRead(t).status = "absent" /\ list.latestRuns[t] = None
        BY <2>1, <3>5
      <4>2. ProjectWorkflowState(list.latestRuns[t], ReviewRead(t)') = "not_evaluated"
        BY <2>3, <3>1, <4>1, ProjectionValue
      <4>3. StateNow(t)' = {"not_evaluated"}
        <5>1. runs' = runs /\ review' = review
          BY <1>2, <3>5 DEF RowsStay
        <5>2. runs'[t] = <<>> /\ review'[t].status = "absent"
          BY <1>3, <3>5, <5>1 DEF StateFacts
        <5>3. StateNow(t)' = {ProjectWorkflowState(None, review'[t])}
          BY <1>2, <1>4, <3>5, <5>2 DEF StateFacts
        <5>4. ProjectWorkflowState(None, review'[t]) = "not_evaluated"
          BY <5>2, ProjectionValue
        <5> QED
          BY <5>3, <5>4
      <4> QED
        BY <2>2, <3>5, <4>2, <4>3
    <3> QED
      BY <3>3, <3>4, <3>5
  <2> QED
    BY <2>4, <2>5
<1> QED
  BY <1>2, <1>5, <1>6, <1>7, <1>8, <1>9

\* A query changes nothing but the list.
LEMMA QueryFrame ==
    ASSUME Invariant, ImportedFirst, UNCHANGED vars
    PROVE  /\ Invariant' /\ ImportedFirst'
           /\ \A t : StateNow(t)' = StateNow(t)
  BY InvariantNext DEF vars, ImportedFirst, StateNow

\* The first query reads the latest runs, and the states begin to be seen.
LEMMA ListMatchRunsKeeps ==
    ASSUME WorklistInvariant, ListMatchRuns
    PROVE  WorklistInvariant'
<1> USE DEF WorklistInvariant
<1> DEFINE latest == [t \in Txn |-> IF runs[t] = <<>> THEN None ELSE runs[t][Len(runs[t])]]
<1>1. /\ Invariant' /\ ImportedFirst'
      /\ \A t : StateNow(t)' = StateNow(t)
      /\ UNCHANGED <<imported, review>>
  BY QueryFrame DEF ListMatchRuns, vars
<1>2. list' = [list EXCEPT !.phase = "reviews", !.latestRuns = latest]
  BY DEF ListMatchRuns
<1>3. \A t \in Txn : runs[t] # <<>> => runs[t][Len(runs[t])] \in SUBSET Outcome
  <2> SUFFICES ASSUME NEW t \in Txn, runs[t] # <<>> PROVE runs[t][Len(runs[t])] \in SUBSET Outcome
    OBVIOUS
  <2>1. runs[t] \in Seq(SUBSET Outcome)
    BY DEF Invariant, TypeOK
  <2>2. Len(runs[t]) \in 1 .. Len(runs[t])
    BY <2>1
  <2> QED
    BY <2>1, <2>2
<1>4. latest \in [Txn -> (SUBSET Outcome) \cup {None}]
  BY <1>3
<1> HIDE DEF latest
<1>5. ListType' /\ list'.phase = "reviews" /\ list'.latestRuns = latest
  BY <1>2, <1>4 DEF ListType
<1>6. SeenNow'
  BY <1>1, <1>5 DEF SeenNow, ListMatchRuns
<1>7. ReadWasReal'
  <2> SUFFICES ASSUME NEW t \in Txn
               PROVE  IF t \in imported
                        THEN ProjectWorkflowState(latest[t], review[t]) \in seen'[t]
                        ELSE latest[t] = None /\ review[t].status = "absent"
    BY <1>1, <1>5 DEF ReadWasReal, ReviewRead
  <2>1. seen'[t] = StateNow(t)
    BY DEF ListMatchRuns
  <2> QED
    BY <2>1, StateNowValue DEF StateFacts, latest
<1> QED
  BY <1>1, <1>5, <1>6, <1>7
     DEF ReadResolved, ListedStateWasReal, ResolvedItemHasOutcome

\* The second query: a review read as resolved has its outcome.
LEMMA ListReviewsKeeps ==
    ASSUME WorklistInvariant, ListReviews
    PROVE  WorklistInvariant'
<1> USE DEF WorklistInvariant
<1>1. /\ Invariant' /\ ImportedFirst'
      /\ \A t : StateNow(t)' = StateNow(t)
      /\ UNCHANGED <<imported, review, outcomes, seen>>
  BY QueryFrame DEF ListReviews, vars
<1>2. review \in [Txn -> ReviewRow]
  BY DEF Invariant, TypeOK
<1>3. /\ ListType' /\ list.phase = "reviews" /\ list'.phase = "outcomes" /\ list'.reviews = review
      /\ list'.latestRuns = list.latestRuns
  BY <1>2 DEF ListType, ListReviews
<1>4. SeenNow' /\ ReadWasReal'
  BY <1>1, <1>3 DEF SeenNow, ReadWasReal, ReviewRead
<1>5. ReadResolved'
  <2>1. \A t \in Txn : review[t].status \in Terminal =>
           \E p \in outcomes : p.txn = t /\ p.type = review[t].status
    BY DEF Invariant, ResolutionFollowsReview, HasOutcome
  <2> QED
    BY <1>1, <1>3, <2>1 DEF ReadResolved, ReadOutcomes
<1> QED
  BY <1>1, <1>3, <1>4, <1>5 DEF ListedStateWasReal, ResolvedItemHasOutcome

LEMMA ListOutcomesKeeps ==
    ASSUME WorklistInvariant, ListOutcomes
    PROVE  WorklistInvariant'
<1> USE DEF WorklistInvariant
<1>1. /\ Invariant' /\ ImportedFirst'
      /\ \A t : StateNow(t)' = StateNow(t)
      /\ UNCHANGED <<imported, review, outcomes, seen>>
  BY QueryFrame DEF ListOutcomes, vars
<1>2. outcomes \subseteq ReconciliationOutcome
  BY DEF Invariant, TypeOK
<1>3. /\ ListType' /\ list.phase = "outcomes" /\ list'.phase = "transactions"
      /\ list'.outcomes = outcomes /\ list'.reviews = list.reviews
      /\ list'.latestRuns = list.latestRuns
  BY <1>2 DEF ListType, ListOutcomes
<1>4. SeenNow' /\ ReadWasReal'
  BY <1>1, <1>3 DEF SeenNow, ReadWasReal, ReviewRead
<1>5. ReadResolved'
  BY <1>1, <1>3 DEF ReadResolved, ReadOutcomes
<1> QED
  BY <1>1, <1>3, <1>4, <1>5 DEF ListedStateWasReal, ResolvedItemHasOutcome

\* The last query makes the items of what the others read.
LEMMA ListTransactionsKeeps ==
    ASSUME WorklistInvariant, ListTransactions
    PROVE  WorklistInvariant'
<1> USE DEF WorklistInvariant
<1> DEFINE state(t) == ProjectWorkflowState(list.latestRuns[t], list.reviews[t])
           item(t) == [txn |-> t, state |-> state(t), outcome |-> {p \in list.outcomes : p.txn = t}]
<1>1. /\ Invariant' /\ ImportedFirst'
      /\ \A t : StateNow(t)' = StateNow(t)
      /\ UNCHANGED <<imported, review, outcomes, seen>>
  BY QueryFrame DEF ListTransactions, vars
<1>2. list.phase = "transactions" /\ imported \subseteq Txn
  BY DEF ListTransactions, Invariant, TypeOK
<1>3. \A t \in Txn : list.reviews[t].status \in ReviewStatus \cup {"absent"}
  BY DEF ListType, ReviewRow
<1>4. \A t \in Txn : state(t) \in WorkflowState
  BY <1>3, ProjectionValue
<1>5. list' = [list EXCEPT !.phase = "done", !.items = {item(t) : t \in imported}]
  BY DEF ListTransactions
<1>6. list.outcomes \subseteq ReconciliationOutcome
  BY DEF ListType
<1> HIDE DEF state
<1>7. \A t \in imported : item(t) \in Item
  BY <1>2, <1>4, <1>6 DEF Item
<1>8. ListType' /\ list'.phase = "done" /\ list'.items = {item(t) : t \in imported}
  BY <1>5, <1>7 DEF ListType
<1>9. ListedStateWasReal'
  <2>1. \A t \in imported : state(t) \in seen[t]
    BY <1>2 DEF ReadWasReal, ReviewRead, state
  <2>2. \A t \in imported : item(t).txn = t /\ item(t).state = state(t)
    OBVIOUS
  <2> QED
    BY <1>1, <1>8, <2>1, <2>2 DEF ListedStateWasReal
<1>10. ResolvedItemHasOutcome'
  <2> SUFFICES ASSUME NEW t \in imported, state(t) \in {"matched", "resolved_unmatched"}
               PROVE  \E p \in item(t).outcome :
                         state(t) = IF p.type = "matched" THEN "matched" ELSE "resolved_unmatched"
    BY <1>8 DEF ResolvedItemHasOutcome
  <2>1. /\ state(t) = "matched" <=> list.reviews[t].status = "matched"
        /\ state(t) = "resolved_unmatched" <=> list.reviews[t].status = "unmatched"
    BY <1>2, <1>3, ProjectionValue DEF state
  <2>2. PICK p \in list.outcomes : p.txn = t /\ p.type = list.reviews[t].status
    BY <1>2, <2>1 DEF ReadResolved, ReadOutcomes, Terminal
  <2> QED
    BY <2>1, <2>2
<1>11. SeenNow'
  BY <1>1, <1>2 DEF SeenNow
<1> QED
  BY <1>1, <1>8, <1>9, <1>10, <1>11 DEF ReadWasReal, ReadResolved

LEMMA AnsweredKeeps ==
    ASSUME WorklistInvariant, Answered
    PROVE  WorklistInvariant'
<1> USE DEF WorklistInvariant
<1>1. Invariant' /\ ImportedFirst'
  BY QueryFrame DEF Answered
<1>2. ListType' /\ list'.phase = "idle"
  BY RowsTyped DEF Answered, NotListing, ListType
<1> QED
  BY <1>1, <1>2 DEF SeenNow, ReadWasReal, ReadResolved, ListedStateWasReal, ResolvedItemHasOutcome

\* All parts of the inductive invariant of the worklist hold in every reachable state.
THEOREM WorklistInvariantHolds == WorklistSpec => []WorklistInvariant
<1>1. WorklistInvariant /\ [WorklistNext]_allVars => WorklistInvariant'
  BY ChangeKeeps, ListMatchRunsKeeps, ListReviewsKeeps, ListOutcomesKeeps,
     ListTransactionsKeeps, AnsweredKeeps DEF WorklistNext
<1> QED
  BY <1>1, WorklistInvariantInit, PTL DEF WorklistSpec

\* A worklist put together by four unlocked queries, while any number of
\* requests commit between them, never shows a transaction in a workflow state
\* that it was not in at some moment of the request.
THEOREM ListedStatesReal == WorklistSpec => []ListedStateWasReal
<1>1. WorklistInvariant => ListedStateWasReal
  BY DEF WorklistInvariant
<1> QED
  BY <1>1, WorklistInvariantHolds, PTL

\* Because the reviews are read before the outcomes, every transaction shown as
\* resolved is shown with the outcome that resolved it.
THEOREM ResolvedItemsComplete == WorklistSpec => []ResolvedItemHasOutcome
<1>1. WorklistInvariant => ResolvedItemHasOutcome
  BY DEF WorklistInvariant
<1> QED
  BY <1>1, WorklistInvariantHolds, PTL

=============================================================================
