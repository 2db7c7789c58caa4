------------------------- MODULE HumanReviewProofs -------------------------
(***************************************************************************)
(* Proofs about HumanReview for every number of sessions, runs, fields,    *)
(* decisions and reviewers.                                                *)
(***************************************************************************)
EXTENDS HumanReview, FiniteSetTheorems, TLAPS

(***************************************************************************)
(* First layer: types, row locks and the stamps and revisions they order.  *)
(***************************************************************************)

\* What a session carries in each state.
Shaped(row) ==
    /\ IsFiniteSet(row.read)
    /\ row.state = "correct_commit" => row.extraction \in Extraction /\ row.field \in Field
    /\ row.state \in {"decide_wait", "decide_commit", "approve_wait"} =>
          row.extraction \in Extraction /\ row.decision \in Decision
    /\ row.state = "approve_wait" => row.actor \in Reviewer
    /\ row.state = "create_commit" => row.decision \in Decision
    /\ row.state = "task_commit" =>
          /\ row.decision \in Decision
          /\ row.event \in Event
          /\ row.event = "approved" => row.extraction \in Extraction
          /\ row.row.status \in Terminal =>
                row.actor \in Reviewer /\ row.event \in {"approved", "rejected"}

SessionShape == \A s \in Session : Shaped(session[s])

\* A run locked for update by one session is locked by no other, in any mode.
RunLocks ==
    \A s1, s2 \in Session, e \in Extraction :
        s1 # s2 /\ HoldsRun(s1, e) => ~HoldsRun(s2, e) /\ ~SharesRun(s2, e)

\* Stamps come from the past, and revisions grow no faster than stamps.
StampsPast ==
    /\ \A e \in Extraction : \A c \in corrections[e] : c.at <= clock /\ c.revision <= c.at
    /\ \A s \in Session : session[s].at <= clock
    /\ \A d \in Decision : decision[d].at <= clock

\* The correction a session is about to commit is the next one of its field,
\* and was stamped after every correction of its run.
PendingIsNext ==
    \A s \in Session :
        session[s].state = "correct_commit" =>
            /\ session[s].revision <= session[s].at
            /\ \E n \in 0 .. clock :
                  /\ Revisions(session[s].extraction, session[s].field) = 1 .. n
                  /\ session[s].revision = n + 1
            /\ \A c \in corrections[session[s].extraction] : c.at < session[s].at

\* A committed decision names its run, and one that succeeded has a verdict.
DecisionShape ==
    \A d \in Decision :
        /\ decision[d].status # "absent" => decision[d].extraction \in Extraction
        /\ decision[d].status = "succeeded" => decision[d].verdict \in Verdict

FiniteCorrections == \A e \in Extraction : IsFiniteSet(corrections[e])

Foundation ==
    /\ TypeOK
    /\ FiniteCorrections
    /\ DecisionShape
    /\ SessionShape
    /\ RunLocks
    /\ StampsPast
    /\ RevisionsGapless
    /\ PendingIsNext

-----------------------------------------------------------------------------

\* next_revision_number continues a gapless numbering.
LEMMA NextRevisionValue ==
    ASSUME NEW e, NEW f, NEW n \in Nat, Revisions(e, f) = 1 .. n
    PROVE  NextRevision(e, f) = n + 1
<1> DEFINE highest == CHOOSE x \in Revisions(e, f) \cup {0} : \A m \in Revisions(e, f) : m <= x
<1>1. n \in Revisions(e, f) \cup {0} /\ \A m \in Revisions(e, f) : m <= n
  OBVIOUS
<1>2. \A x \in Revisions(e, f) \cup {0} :
         (\A m \in Revisions(e, f) : m <= x) => x = n
  OBVIOUS
<1>3. highest = n
  BY <1>1, <1>2
<1>4. NextRevision(e, f) = 1 + highest
  BY DEF NextRevision
<1> HIDE DEF highest
<1> QED
  BY <1>3, <1>4

LEMMA IdleTyped == Idle \in SessionRow /\ NoTask \in TaskRow /\ NoDecision \in DecisionRow
  BY DEF Idle, SessionRow, NoTask, TaskRow, NoDecision, DecisionRow, State, Escalation

LEMMA RiskTyped == \A v \in Verdict : ClassifyReviewRisk(v) \in RiskClass
  BY DEF ClassifyReviewRisk, RiskClass, Verdict

\* The initial state has all parts of the foundation.
LEMMA FoundationInit == Init => Foundation
<1> SUFFICES ASSUME Init PROVE Foundation
  OBVIOUS
<1>1. TypeOK
  BY IdleTyped DEF Init, TypeOK
<1>2. FiniteCorrections /\ DecisionShape /\ SessionShape
  BY FS_EmptySet DEF Init, FiniteCorrections, DecisionShape, NoDecision, SessionShape, Shaped, Idle
<1>3. RunLocks /\ StampsPast /\ PendingIsNext
  BY DEF Init, RunLocks, HoldsRun, SharesRun, StampsPast, PendingIsNext, Idle, NoDecision
<1>4. RevisionsGapless
  <2>1. \A e \in Extraction, f \in Field : Revisions(e, f) = 1 .. 0
    BY DEF Init, Revisions
  <2>2. 0 \in 0 .. clock
    BY DEF Init
  <2> QED
    BY <2>1, <2>2 DEF Init, RevisionsGapless
<1> QED
  BY <1>1, <1>2, <1>3, <1>4 DEF Foundation

\* A step that only moves one session, to a state in which it has nothing of its
\* own to commit to corrections, keeps the foundation if it takes no run lock
\* that is already taken.
LEMMA SessionStep ==
    ASSUME Foundation,
           NEW s \in Session, NEW row \in SessionRow,
           session' = [session EXCEPT ![s] = row],
           UNCHANGED <<corrections, decision, task, outcomes, history>>,
           clock' \in Nat, clock <= clock',
           Shaped(row), row.at <= clock', row.state # "correct_commit",
           (row.state = "task_commit" /\ row.event = "approved") =>
               \A t \in Session : t # s => ~HoldsRun(t, row.extraction) /\ ~SharesRun(t, row.extraction),
           row.state = "decide_commit" =>
               \A t \in Session : t # s => ~HoldsRun(t, row.extraction)
    PROVE  Foundation'
<1> USE DEF Foundation
<1>1. /\ session' \in [Session -> SessionRow]
      /\ session'[s] = row
      /\ \A t \in Session : t # s => session'[t] = session[t]
  BY DEF TypeOK
<1>2. TypeOK'
  BY <1>1 DEF TypeOK
<1>3. FiniteCorrections' /\ DecisionShape' /\ SessionShape'
  BY <1>1 DEF FiniteCorrections, DecisionShape, SessionShape, Shaped
<1>4. RunLocks'
  BY <1>1 DEF RunLocks, HoldsRun, SharesRun
<1>5. StampsPast'
  <2>1. \A e \in Extraction : \A c \in corrections[e] :
           c.at \in Nat /\ c.at <= clock /\ c.revision <= c.at
    BY DEF StampsPast, TypeOK, Correction
  <2>2. \A t \in Session : session'[t].at <= clock'
    BY <1>1 DEF StampsPast, TypeOK, SessionRow
  <2>3. \A d \in Decision : decision[d].at <= clock'
    BY DEF StampsPast, TypeOK, DecisionRow
  <2> QED
    BY <2>1, <2>2, <2>3 DEF StampsPast, TypeOK
<1>6. \A n \in 0 .. clock : n \in 0 .. clock'
  BY DEF TypeOK
<1>7. \A e, f : Revisions(e, f)' = Revisions(e, f)
  BY DEF Revisions
<1>8. RevisionsGapless'
  BY <1>6, <1>7 DEF RevisionsGapless
<1>9. PendingIsNext'
  BY <1>1, <1>6, <1>7 DEF PendingIsNext
<1> QED
  BY <1>2, <1>3, <1>4, <1>5, <1>8, <1>9

\* An operation that locks a task, other than approve, keeps the foundation.
LEMMA LockAndChangeStep ==
    ASSUME Foundation, NEW s \in Session, NEW d \in Decision,
           NEW actor \in Reviewer \cup {None}, NEW row \in TaskRow,
           NEW event \in Event \ {"approved"},
           row.status \in Terminal => actor \in Reviewer /\ event = "rejected",
           LockAndChange(s, d, actor, row, event)
    PROVE  Foundation'
<1> DEFINE new == [Idle EXCEPT !.state = "task_commit", !.decision = d,
                               !.actor = actor, !.row = row, !.event = event]
<1>1. new \in SessionRow
  BY IdleTyped DEF SessionRow, Idle, State
<1>2. Shaped(new) /\ new.at = 0 /\ new.state = "task_commit" /\ new.event = event
  BY FS_EmptySet DEF Shaped, Idle
<1>3. session' = [session EXCEPT ![s] = new]
  BY DEF LockAndChange
<1>4. UNCHANGED <<clock, corrections, decision, task, outcomes, history>>
  BY DEF LockAndChange
<1>5. clock \in Nat /\ 0 <= clock /\ clock <= clock
  BY DEF Foundation, TypeOK
<1> HIDE DEF new
<1> QED
  BY <1>1, <1>2, <1>3, <1>4, <1>5, SessionStep

\* A commit that ends a session without adding a correction keeps the foundation
\* if the rows it writes have their types.
LEMMA CommitStep ==
    ASSUME Foundation, NEW s \in Session,
           session' = [session EXCEPT ![s] = Idle],
           UNCHANGED <<clock, corrections>>,
           decision' \in [Decision -> DecisionRow], DecisionShape',
           \A d \in Decision : decision'[d].at <= clock,
           task' \in [Decision -> TaskRow],
           outcomes' \subseteq Outcome,
           history' \in [Decision -> Seq(Event)]
    PROVE  Foundation'
<1> USE DEF Foundation
<1>1. Shaped(Idle) /\ Idle.at = 0 /\ Idle.state = "idle" /\ Idle \in SessionRow
  BY FS_EmptySet, IdleTyped DEF Shaped, Idle
<1>2. /\ session' \in [Session -> SessionRow]
      /\ session'[s] = Idle
      /\ \A t \in Session : t # s => session'[t] = session[t]
  BY <1>1 DEF TypeOK
<1>3. \A e, f : Revisions(e, f)' = Revisions(e, f)
  BY DEF Revisions
<1>4. TypeOK'
  BY <1>2 DEF TypeOK
<1>5. FiniteCorrections' /\ SessionShape'
  BY <1>1, <1>2 DEF FiniteCorrections, SessionShape
<1>6. RunLocks'
  BY <1>1, <1>2 DEF RunLocks, HoldsRun, SharesRun
<1>7. StampsPast'
  <2>1. 0 <= clock
    BY DEF TypeOK
  <2> QED
    BY <1>1, <1>2, <2>1 DEF StampsPast
<1>8. RevisionsGapless' /\ PendingIsNext'
  BY <1>1, <1>2, <1>3 DEF RevisionsGapless, PendingIsNext
<1> QED
  BY <1>4, <1>5, <1>6, <1>7, <1>8

\* Every step of every request keeps the foundation.
LEMMA FoundationNext == Foundation /\ [Next]_vars => Foundation'
<1> SUFFICES ASSUME Foundation, [Next]_vars PROVE Foundation'
  OBVIOUS
<1> USE DEF Foundation
<1>0. /\ clock \in Nat /\ clock' = clock + 1 => clock' \in Nat /\ clock <= clock'
      /\ clock' = clock => clock' \in Nat /\ clock <= clock'
  BY DEF TypeOK
<1>1. ASSUME NEW s \in Session, NEW e \in Extraction, NEW f \in Field, CorrectField(s, e, f)
      PROVE  Foundation'
  <2> DEFINE new == [Idle EXCEPT !.state = "correct_commit", !.extraction = e, !.field = f,
                                 !.revision = NextRevision(e, f), !.at = clock + 1]
  <2>1. PICK n \in 0 .. clock : Revisions(e, f) = 1 .. n
    BY DEF RevisionsGapless
  <2>2. NextRevision(e, f) = n + 1
    BY <2>1, NextRevisionValue DEF TypeOK
  <2>3. /\ clock' = clock + 1 /\ clock + 1 \in Nat /\ n + 1 \in Nat /\ n + 1 <= clock + 1
        /\ \A k \in 0 .. clock : k \in 0 .. clock'
        /\ \A k \in Nat : k <= clock => k < clock + 1 /\ k <= clock'
    BY <1>1, <2>1 DEF CorrectField, TypeOK
  <2>4. new \in SessionRow
    BY <2>2, <2>3, IdleTyped DEF SessionRow, Idle, State
  <2>5. /\ new.state = "correct_commit" /\ new.extraction = e /\ new.field = f
        /\ new.revision = n + 1 /\ new.at = clock + 1 /\ Shaped(new)
    BY <2>2, FS_EmptySet DEF Shaped, Idle
  <2>6. session' = [session EXCEPT ![s] = new]
    BY <1>1 DEF CorrectField
  <2>7. UNCHANGED <<corrections, decision, task, outcomes, history>>
    BY <1>1 DEF CorrectField
  <2>8. \A t \in Session : ~HoldsRun(t, e) /\ ~SharesRun(t, e)
    BY <1>1 DEF CorrectField, RunUnlocked
  <2> HIDE DEF new
  <2>9. /\ session' \in [Session -> SessionRow]
        /\ session'[s] = new
        /\ \A t \in Session : t # s => session'[t] = session[t]
    BY <2>4, <2>6 DEF TypeOK
  <2>10. \A x, y : Revisions(x, y)' = Revisions(x, y)
    BY <2>7 DEF Revisions
  <2>11. TypeOK'
    BY <2>3, <2>7, <2>9 DEF TypeOK
  <2>12. FiniteCorrections' /\ DecisionShape' /\ SessionShape'
    BY <2>5, <2>7, <2>9 DEF FiniteCorrections, DecisionShape, SessionShape
  <2>13. RunLocks'
    BY <2>5, <2>8, <2>9 DEF RunLocks, HoldsRun, SharesRun
  <2>14. \A x \in Extraction : \A c \in corrections[x] : c.at \in Nat /\ c.at <= clock
    BY DEF StampsPast, TypeOK, Correction
  <2>15. StampsPast'
    <3>1. \A t \in Session : session[t].at \in Nat /\ session[t].at <= clock
      BY DEF StampsPast, TypeOK, SessionRow
    <3>2. \A d \in Decision : decision[d].at \in Nat /\ decision[d].at <= clock
      BY DEF StampsPast, TypeOK, DecisionRow
    <3>3. clock + 1 <= clock'
      BY <2>3
    <3> QED
      BY <2>3, <2>5, <2>7, <2>9, <2>14, <3>1, <3>2, <3>3 DEF StampsPast
  <2>16. RevisionsGapless'
    BY <2>3, <2>7, <2>10 DEF RevisionsGapless
  <2>17. PendingIsNext'
    <3>1. \A c \in corrections'[e] : c.at < clock + 1
      BY <2>3, <2>7, <2>14
    <3>2. n \in 0 .. clock' /\ Revisions(e, f)' = 1 .. n
      BY <2>1, <2>3, <2>10
    <3> SUFFICES ASSUME NEW t \in Session, session'[t].state = "correct_commit"
                 PROVE  /\ session'[t].revision <= session'[t].at
                        /\ \E k \in 0 .. clock' :
                              /\ Revisions(session[t].extraction, session[t].field)' = 1 .. k
                              /\ session'[t].revision = k + 1
                        /\ \A c \in corrections'[session'[t].extraction] : c.at < session'[t].at
      BY DEF PendingIsNext
    <3>3. CASE t = s
      BY <2>3, <2>5, <2>9, <3>1, <3>2, <3>3
    <3>4. CASE t # s
      BY <2>3, <2>7, <2>9, <2>10, <3>4 DEF PendingIsNext
    <3> QED
      BY <3>3, <3>4
  <2> QED
    BY <2>11, <2>12, <2>13, <2>15, <2>16, <2>17
<1>2. ASSUME NEW s \in Session, CorrectFieldCommit(s)
      PROVE  Foundation'
  <2>1. session[s].state = "correct_commit"
    BY <1>2 DEF CorrectFieldCommit
  <2>2. PICK e \in Extraction, f \in Field, rev \in Nat, at \in Nat :
           /\ session[s].extraction = e /\ session[s].field = f
           /\ session[s].revision = rev /\ session[s].at = at
    BY <2>1 DEF TypeOK, SessionShape, Shaped, SessionRow
  <2> DEFINE c == [field |-> f, revision |-> rev, at |-> at]
  <2>3. /\ corrections' = [corrections EXCEPT ![e] = @ \cup {c}]
        /\ session' = [session EXCEPT ![s] = Idle]
        /\ UNCHANGED <<clock, decision, task, outcomes, history>>
    BY <1>2, <2>2 DEF CorrectFieldCommit
  <2>4. at <= clock /\ rev <= at /\ \A x \in corrections[e] : x.at < at
    BY <2>1, <2>2 DEF StampsPast, PendingIsNext
  <2>5. PICK n \in 0 .. clock : Revisions(e, f) = 1 .. n /\ rev = n + 1
    BY <2>1, <2>2 DEF PendingIsNext
  <2>6. c \in Correction /\ c.field = f /\ c.revision = rev /\ c.at = at
    BY DEF Correction
  <2> HIDE DEF c
  <2>7. Shaped(Idle) /\ Idle.at = 0 /\ Idle.state = "idle" /\ Idle \in SessionRow
    BY FS_EmptySet, IdleTyped DEF Shaped, Idle
  <2>8. /\ session' \in [Session -> SessionRow]
        /\ session'[s] = Idle
        /\ \A t \in Session : t # s => session'[t] = session[t]
    BY <2>3, <2>7 DEF TypeOK
  <2>9. /\ corrections'[e] = corrections[e] \cup {c}
        /\ \A x \in Extraction : x # e => corrections'[x] = corrections[x]
    BY <2>3 DEF TypeOK
  <2>10. TypeOK'
    BY <2>3, <2>6, <2>8 DEF TypeOK
  <2>11. FiniteCorrections' /\ DecisionShape' /\ SessionShape'
    <3>1. IsFiniteSet(corrections'[e])
      BY <2>9, FS_AddElement DEF FiniteCorrections
    <3> QED
      BY <2>3, <2>7, <2>8, <2>9, <3>1 DEF FiniteCorrections, DecisionShape, SessionShape
  <2>12. RunLocks'
    BY <2>7, <2>8 DEF RunLocks, HoldsRun, SharesRun
  <2>13. StampsPast'
    <3>1. 0 <= clock
      BY DEF TypeOK
    <3>2. \A x \in Extraction : \A y \in corrections'[x] : y.at <= clock /\ y.revision <= y.at
      BY <2>4, <2>6, <2>9 DEF StampsPast
    <3> QED
      BY <2>3, <2>7, <2>8, <3>1, <3>2 DEF StampsPast
  <2>14. \A x \in Extraction, y \in Field :
            x # e \/ y # f => Revisions(x, y)' = Revisions(x, y)
    BY <2>6, <2>9 DEF Revisions
  <2>15. Revisions(e, f)' = 1 .. (n + 1) /\ n + 1 \in 0 .. clock
    <3>1. Revisions(e, f)' = Revisions(e, f) \cup {rev}
      BY <2>6, <2>9 DEF Revisions
    <3>2. n + 1 <= clock
      BY <2>4, <2>5 DEF TypeOK
    <3> QED
      BY <2>5, <3>1, <3>2 DEF TypeOK
  <2>16. RevisionsGapless'
    <3> SUFFICES ASSUME NEW x \in Extraction, NEW y \in Field
                 PROVE  /\ \E k \in 0 .. clock' : Revisions(x, y)' = 1 .. k
                        /\ \A c1, c2 \in corrections'[x] :
                              c1.field = y /\ c2.field = y =>
                                  (c1.revision < c2.revision <=> c1.at < c2.at)
      BY DEF RevisionsGapless
    <3>1. \E k \in 0 .. clock' : Revisions(x, y)' = 1 .. k
      BY <2>3, <2>14, <2>15 DEF RevisionsGapless
    <3>2. \A b \in corrections[e] : b.at \in Nat /\ b.revision \in Nat
      BY DEF TypeOK, Correction
    <3>3. \A b \in corrections[e] : b.field = f => b.revision < rev
      <4>1. \A b \in corrections[e] : b.field = f => b.revision \in Revisions(e, f)
        BY DEF Revisions
      <4> QED
        BY <2>5, <4>1
    <3>4. \A c1, c2 \in corrections'[x] :
             c1.field = y /\ c2.field = y => (c1.revision < c2.revision <=> c1.at < c2.at)
      <4>1. CASE x # e
        BY <2>9, <4>1 DEF RevisionsGapless
      <4>2. CASE x = e
        <5> SUFFICES ASSUME NEW c1 \in corrections[e] \cup {c}, NEW c2 \in corrections[e] \cup {c},
                            c1.field = y, c2.field = y
                     PROVE  c1.revision < c2.revision <=> c1.at < c2.at
          BY <2>9, <4>2
        <5>1. CASE c1 = c /\ c2 = c
          BY <5>1, <2>6
        <5>2. CASE c1 = c /\ c2 \in corrections[e]
          BY <5>2, <2>4, <2>6, <3>2, <3>3
        <5>3. CASE c1 \in corrections[e] /\ c2 = c
          BY <5>3, <2>4, <2>6, <3>2, <3>3
        <5>4. CASE c1 \in corrections[e] /\ c2 \in corrections[e]
          BY <5>4 DEF RevisionsGapless
        <5> QED
          BY <5>1, <5>2, <5>3, <5>4
      <4> QED
        BY <4>1, <4>2
    <3> QED
      BY <3>1, <3>4
  <2>17. PendingIsNext'
    <3> SUFFICES ASSUME NEW t \in Session, session'[t].state = "correct_commit"
                 PROVE  /\ session'[t].revision <= session'[t].at
                        /\ \E k \in 0 .. clock' :
                              /\ Revisions(session[t].extraction, session[t].field)' = 1 .. k
                              /\ session'[t].revision = k + 1
                        /\ \A x \in corrections'[session'[t].extraction] : x.at < session'[t].at
      BY DEF PendingIsNext
    <3>1. t # s /\ session'[t] = session[t]
      BY <2>7, <2>8
    <3>2. PICK x \in Extraction, y \in Field :
             session[t].extraction = x /\ session[t].field = y
      BY <3>1 DEF SessionShape, Shaped
    <3>3. x # e
      BY <2>1, <2>2, <3>1, <3>2 DEF RunLocks, HoldsRun
    <3>4. Revisions(x, y)' = Revisions(x, y) /\ corrections'[x] = corrections[x]
      BY <2>9, <2>14, <3>3
    <3>5. Revisions(session[t].extraction, session[t].field)' = Revisions(x, y)'
      BY <3>1, <3>2 DEF Revisions
    <3> QED
      BY <2>3, <3>1, <3>2, <3>4, <3>5 DEF PendingIsNext
  <2> QED
    BY <2>10, <2>11, <2>12, <2>13, <2>16, <2>17
<1>3. ASSUME NEW s \in Session, NEW e \in Extraction, NEW d \in Decision, StartDecision(s, e, d)
      PROVE  Foundation'
  <2> DEFINE new == [Idle EXCEPT !.state = "decide_wait", !.extraction = e,
                                 !.decision = d, !.at = clock + 1]
  <2>0. clock + 1 \in Nat /\ clock + 1 <= clock + 1 /\ clock <= clock + 1
    BY DEF TypeOK
  <2>1. new \in SessionRow
    BY <2>0, IdleTyped DEF SessionRow, Idle, State
  <2>2. Shaped(new) /\ new.at = clock + 1 /\ new.state = "decide_wait"
    BY FS_EmptySet DEF Shaped, Idle
  <2>3. session' = [session EXCEPT ![s] = new] /\ clock' = clock + 1
    BY <1>3 DEF StartDecision
  <2>4. UNCHANGED <<corrections, decision, task, outcomes, history>>
    BY <1>3 DEF StartDecision
  <2> HIDE DEF new
  <2> QED
    BY <2>0, <2>1, <2>2, <2>3, <2>4, SessionStep
<1>4. ASSUME NEW s \in Session, NEW v \in Verdicts \cup {None}, RunEngine(s, v)
      PROVE  Foundation'
  <2> DEFINE new == [session[s] EXCEPT !.state = "decide_commit",
                                       !.read = corrections[session[s].extraction],
                                       !.verdict = v]
  <2>1. session[s] \in SessionRow /\ Shaped(session[s]) /\ session[s].at <= clock
    BY DEF TypeOK, SessionShape, StampsPast
  <2>2. session[s].extraction \in Extraction /\ session[s].decision \in Decision
    BY <1>4, <2>1 DEF RunEngine, Shaped
  <2>3. /\ corrections[session[s].extraction] \in SUBSET Correction
        /\ IsFiniteSet(corrections[session[s].extraction])
    BY <2>2 DEF TypeOK, FiniteCorrections
  <2>4. v \in Verdict \cup {None}
    BY VerdictsAssumption
  <2>5. new \in SessionRow
    BY <2>1, <2>3, <2>4 DEF SessionRow, State
  <2>6. /\ Shaped(new) /\ new.state = "decide_commit" /\ new.at = session[s].at
        /\ new.extraction = session[s].extraction
    BY <2>1, <2>2, <2>3 DEF Shaped, SessionRow
  <2>7. session' = [session EXCEPT ![s] = new]
    BY <1>4 DEF RunEngine, TypeOK
  <2>8. UNCHANGED <<clock, corrections, decision, task, outcomes, history>>
    BY <1>4 DEF RunEngine
  <2>9. \A t \in Session : ~HoldsRun(t, session[s].extraction)
    BY <1>4 DEF RunEngine, RunShareable
  <2> HIDE DEF new
  <2> QED
    BY <1>0, <2>1, <2>5, <2>6, <2>7, <2>8, <2>9, SessionStep
<1>5. ASSUME NEW s \in Session, DecisionCommit(s)
      PROVE  Foundation'
  <2> DEFINE d == session[s].decision
  <2> DEFINE failed == session[s].verdict = None
  <2> DEFINE row == [status |-> IF failed THEN "failed" ELSE "succeeded",
                     extraction |-> session[s].extraction,
                     at |-> session[s].at,
                     consumed |-> IF failed THEN {} ELSE session[s].read,
                     verdict |-> session[s].verdict]
  <2>1. session[s] \in SessionRow /\ Shaped(session[s]) /\ session[s].at <= clock
    BY DEF TypeOK, SessionShape, StampsPast
  <2>2. session[s].extraction \in Extraction /\ d \in Decision
    BY <1>5, <2>1 DEF DecisionCommit, Shaped
  <2>3. row \in DecisionRow
    BY <2>1 DEF DecisionRow, SessionRow
  <2>4. /\ row.extraction \in Extraction /\ row.at <= clock
        /\ row.status = "succeeded" => row.verdict \in Verdict
    BY <2>1, <2>2 DEF SessionRow
  <2>5. decision' = [decision EXCEPT ![d] = row]
    BY <1>5 DEF DecisionCommit
  <2>6. /\ session' = [session EXCEPT ![s] = Idle]
        /\ UNCHANGED <<clock, corrections, task, outcomes, history>>
    BY <1>5 DEF DecisionCommit
  <2> HIDE DEF row, d
  <2>7. /\ decision' \in [Decision -> DecisionRow]
        /\ decision'[d] = row
        /\ \A x \in Decision : x # d => decision'[x] = decision[x]
    BY <2>2, <2>3, <2>5 DEF TypeOK
  <2>8. DecisionShape' /\ \A x \in Decision : decision'[x].at <= clock
    BY <2>4, <2>7 DEF DecisionShape, StampsPast
  <2> QED
    BY <2>6, <2>7, <2>8, CommitStep DEF TypeOK
<1>6. ASSUME NEW s \in Session, NEW d \in Decision, NEW m \in Reviewer, CreateTask(s, d, m)
      PROVE  Foundation'
  <2> DEFINE row == [status |-> "open", owner |-> m, escalation |-> "none",
                     risk |-> ClassifyReviewRisk(decision[d].verdict)]
  <2> DEFINE new == [Idle EXCEPT !.state = "create_commit", !.decision = d,
                                 !.row = row, !.event = "created"]
  <2>1. ClassifyReviewRisk(decision[d].verdict) \in RiskClass
    BY <1>6, RiskTyped DEF CreateTask, DecisionShape
  <2>2. row \in TaskRow
    BY <2>1 DEF TaskRow, Status, Escalation
  <2> HIDE DEF row
  <2>3. new \in SessionRow
    BY <2>2, IdleTyped DEF SessionRow, Idle, State, Event
  <2>4. Shaped(new) /\ new.at = 0 /\ new.state = "create_commit"
    BY FS_EmptySet DEF Shaped, Idle
  <2>5. session' = [session EXCEPT ![s] = new]
    BY <1>6 DEF CreateTask, row
  <2>6. UNCHANGED <<clock, corrections, decision, task, outcomes, history>>
    BY <1>6 DEF CreateTask
  <2> HIDE DEF new
  <2>7. 0 <= clock
    BY DEF TypeOK
  <2> QED
    BY <1>0, <2>3, <2>4, <2>5, <2>6, <2>7, SessionStep
<1>7. ASSUME NEW s \in Session, CreateTaskCommit(s)
      PROVE  Foundation'
  <2> DEFINE d == session[s].decision
  <2>1. session[s] \in SessionRow /\ d \in Decision
    BY <1>7 DEF TypeOK, SessionShape, Shaped, CreateTaskCommit
  <2>2. session[s].row \in TaskRow
    BY <2>1 DEF SessionRow
  <2>3. /\ session' = [session EXCEPT ![s] = Idle]
        /\ UNCHANGED <<clock, corrections, decision, outcomes>>
    BY <1>7 DEF CreateTaskCommit
  <2>4. task' \in [Decision -> TaskRow]
    BY <1>7, <2>1, <2>2 DEF CreateTaskCommit, TypeOK
  <2>5. history' \in [Decision -> Seq(Event)]
    <3>1. Append(history[d], "created") \in Seq(Event)
      BY <2>1 DEF Event, TypeOK
    <3>2. history' = history \/ history' = [history EXCEPT ![d] = Append(history[d], "created")]
      BY <1>7 DEF CreateTaskCommit
    <3> QED
      BY <2>1, <3>1, <3>2 DEF TypeOK
  <2>6. DecisionShape' /\ \A x \in Decision : decision'[x].at <= clock
    BY <2>3 DEF DecisionShape, StampsPast
  <2> QED
    BY <2>3, <2>4, <2>5, <2>6, CommitStep DEF TypeOK
<1>8. ASSUME NEW s \in Session, NEW d \in Decision, NEW m \in Reviewer, AddComment(s, d, m)
      PROVE  Foundation'
  <2>1. task[d] \in TaskRow /\ task[d].status \notin Terminal
    BY <1>8 DEF AddComment, LockAndChange, TypeOK
  <2> QED
    BY <1>8, <2>1, LockAndChangeStep DEF AddComment, Event
<1>9. ASSUME NEW s \in Session, NEW d \in Decision, NEW m \in Reviewer, NEW n \in Senior,
             EscalateToSenior(s, d, m, n)
      PROVE  Foundation'
  <2> DEFINE row == [task[d] EXCEPT !.status = "escalated", !.owner = n,
                                    !.escalation = "senior_review"]
  <2>1. row \in TaskRow /\ row.status \notin Terminal
    BY SeniorAssumption DEF TypeOK, TaskRow, Status, Terminal, Escalation
  <2>2. LockAndChange(s, d, m, row, "escalated")
    BY <1>9 DEF EscalateToSenior
  <2> HIDE DEF row
  <2> QED
    BY <2>1, <2>2, LockAndChangeStep DEF Event
<1>10. ASSUME NEW s \in Session, NEW d \in Decision, NEW m \in Reviewer,
              RequestInformation(s, d, m)
       PROVE  Foundation'
  <2> DEFINE row == [task[d] EXCEPT !.status = "information_requested"]
  <2>1. row \in TaskRow /\ row.status \notin Terminal
    BY DEF TypeOK, TaskRow, Status, Terminal
  <2>2. LockAndChange(s, d, m, row, "information_requested")
    BY <1>10 DEF RequestInformation
  <2> HIDE DEF row
  <2> QED
    BY <2>1, <2>2, LockAndChangeStep DEF Event
<1>11. ASSUME NEW s \in Session, NEW d \in Decision, RespondToInformationRequest(s, d)
       PROVE  Foundation'
  <2> DEFINE row == [task[d] EXCEPT !.status = IF task[d].escalation = "senior_review"
                                               THEN "escalated" ELSE "open"]
  <2>1. row \in TaskRow /\ row.status \notin Terminal
    BY DEF TypeOK, TaskRow, Status, Terminal
  <2>2. LockAndChange(s, d, None, row, "information_responded")
    BY <1>11 DEF RespondToInformationRequest
  <2> HIDE DEF row
  <2> QED
    BY <2>1, <2>2, LockAndChangeStep DEF Event
<1>12. ASSUME NEW s \in Session, NEW d \in Decision, NEW m \in Reviewer, Reject(s, d, m)
       PROVE  Foundation'
  <2> DEFINE row == [task[d] EXCEPT !.status = "rejected"]
  <2>1. row \in TaskRow
    BY DEF TypeOK, TaskRow, Status
  <2>2. LockAndChange(s, d, m, row, "rejected")
    BY <1>12 DEF Reject
  <2> HIDE DEF row
  <2> QED
    BY <2>1, <2>2, LockAndChangeStep DEF Event
<1>13. ASSUME NEW s \in Session, NEW d \in Decision, NEW m \in Reviewer, Approve(s, d, m)
       PROVE  Foundation'
  <2> DEFINE new == [Idle EXCEPT !.state = "approve_wait", !.decision = d, !.actor = m,
                                 !.extraction = decision[d].extraction]
  <2>1. decision[d].extraction \in Extraction
    BY <1>13 DEF Approve, DecisionShape
  <2>2. new \in SessionRow
    BY <2>1, IdleTyped DEF SessionRow, Idle, State
  <2>3. Shaped(new) /\ new.at = 0 /\ new.state = "approve_wait"
    BY <2>1, FS_EmptySet DEF Shaped, Idle
  <2>4. session' = [session EXCEPT ![s] = new]
    BY <1>13 DEF Approve
  <2>5. UNCHANGED <<clock, corrections, decision, task, outcomes, history>>
    BY <1>13 DEF Approve
  <2>6. 0 <= clock
    BY DEF TypeOK
  <2> HIDE DEF new
  <2> QED
    BY <1>0, <2>2, <2>3, <2>4, <2>5, <2>6, SessionStep
<1>14. ASSUME NEW s \in Session, ApproveLockRun(s)
       PROVE  Foundation'
  <2>1. session[s] \in SessionRow /\ Shaped(session[s]) /\ session[s].at <= clock
    BY DEF TypeOK, SessionShape, StampsPast
  <2>2. /\ session[s].extraction \in Extraction /\ session[s].decision \in Decision
        /\ session[s].actor \in Reviewer
    BY <1>14, <2>1 DEF ApproveLockRun, Shaped
  <2> DEFINE row == [task[session[s].decision] EXCEPT !.status = "approved"]
  <2> DEFINE new == [session[s] EXCEPT !.state = "task_commit",
                                       !.read = corrections[session[s].extraction],
                                       !.row = row, !.event = "approved"]
  <2>3. row \in TaskRow
    BY <2>2 DEF TypeOK, TaskRow, Status
  <2>4. /\ corrections[session[s].extraction] \in SUBSET Correction
        /\ IsFiniteSet(corrections[session[s].extraction])
    BY <2>2 DEF TypeOK, FiniteCorrections
  <2>5. UNCHANGED <<clock, corrections, decision, task, outcomes, history>>
    BY <1>14 DEF ApproveLockRun
  <2>6. CASE session' = [session EXCEPT ![s] = Idle]
    <3>1. Shaped(Idle) /\ Idle.at = 0 /\ Idle.state = "idle" /\ Idle \in SessionRow
      BY FS_EmptySet, IdleTyped DEF Shaped, Idle
    <3>2. 0 <= clock
      BY DEF TypeOK
    <3> QED
      BY <1>0, <2>5, <2>6, <3>1, <3>2, SessionStep
  <2>7. CASE session' = [session EXCEPT ![s] = new]
    <3> HIDE DEF row
    <3>1. new \in SessionRow
      BY <2>1, <2>3, <2>4 DEF SessionRow, State, Event
    <3>2. /\ Shaped(new) /\ new.state = "task_commit" /\ new.at = session[s].at
          /\ new.extraction = session[s].extraction
      BY <2>1, <2>2, <2>4 DEF Shaped, SessionRow, Event
    <3>3. \A t \in Session :
             ~HoldsRun(t, session[s].extraction) /\ ~SharesRun(t, session[s].extraction)
      BY <1>14 DEF ApproveLockRun, RunUnlocked
    <3> HIDE DEF new
    <3> QED
      BY <1>0, <2>1, <2>5, <2>7, <3>1, <3>2, <3>3, SessionStep
  <2>8. session' = [session EXCEPT ![s] = Idle] \/ session' = [session EXCEPT ![s] = new]
    BY <1>14 DEF ApproveLockRun
  <2> QED
    BY <2>6, <2>7, <2>8
<1>15. ASSUME NEW s \in Session, TaskCommit(s)
       PROVE  Foundation'
  <2> DEFINE d == session[s].decision
  <2>1. /\ session[s] \in SessionRow /\ d \in Decision /\ session[s].event \in Event
        /\ session[s].row.status \in Terminal => session[s].actor \in Reviewer
        /\ Cardinality(session[s].read) \in Nat
    BY <1>15, FS_CardinalityType DEF TypeOK, SessionShape, Shaped, TaskCommit
  <2>2. session[s].row \in TaskRow
    BY <2>1 DEF SessionRow
  <2>3. /\ session' = [session EXCEPT ![s] = Idle]
        /\ UNCHANGED <<clock, corrections, decision>>
    BY <1>15 DEF TaskCommit
  <2>4. task' \in [Decision -> TaskRow]
    BY <1>15, <2>1, <2>2 DEF TaskCommit, TypeOK
  <2>5. history' \in [Decision -> Seq(Event)]
    <3>1. \A h \in Seq(Event) : Append(h, session[s].event) \in Seq(Event)
      BY <2>1
    <3> QED
      BY <1>15, <2>1, <3>1 DEF TaskCommit, TypeOK
  <2>6. outcomes' \subseteq Outcome
    <3>1. session[s].row.status \in Terminal => OutcomeOf(s) \in Outcome
      BY <2>1 DEF OutcomeOf, Outcome, OutcomeType
    <3> QED
      BY <1>15, <3>1 DEF TaskCommit, TypeOK
  <2>7. DecisionShape' /\ \A x \in Decision : decision'[x].at <= clock
    BY <2>3 DEF DecisionShape, StampsPast
  <2> QED
    BY <2>3, <2>4, <2>5, <2>6, <2>7, CommitStep DEF TypeOK
<1>16. ASSUME NEW s \in Session, Rollback(s)
       PROVE  Foundation'
  <2>1. Shaped(Idle) /\ Idle.at = 0 /\ Idle.state = "idle" /\ Idle \in SessionRow
    BY FS_EmptySet, IdleTyped DEF Shaped, Idle
  <2>2. session' = [session EXCEPT ![s] = Idle]
    BY <1>16 DEF Rollback
  <2>3. UNCHANGED <<clock, corrections, decision, task, outcomes, history>>
    BY <1>16 DEF Rollback
  <2>4. 0 <= clock
    BY DEF TypeOK
  <2> QED
    BY <1>0, <2>1, <2>2, <2>3, <2>4, SessionStep
<1>17. ASSUME UNCHANGED vars
       PROVE  Foundation'
  <2>1. TypeOK' /\ FiniteCorrections' /\ DecisionShape' /\ SessionShape'
    BY <1>17 DEF vars, TypeOK, FiniteCorrections, DecisionShape, SessionShape
  <2>2. RunLocks' /\ StampsPast'
    BY <1>17 DEF vars, RunLocks, HoldsRun, SharesRun, StampsPast
  <2>3. RevisionsGapless' /\ PendingIsNext'
    BY <1>17 DEF vars, RevisionsGapless, Revisions, PendingIsNext
  <2> QED
    BY <2>1, <2>2, <2>3
<1> QED
  BY <1>1, <1>2, <1>3, <1>4, <1>5, <1>6, <1>7, <1>8, <1>9, <1>10, <1>11, <1>12, <1>13,
     <1>14, <1>15, <1>16, <1>17 DEF Next

\* The foundation holds in every reachable state.
THEOREM FoundationHolds == Spec => []Foundation
  BY FoundationInit, FoundationNext, PTL DEF Spec

\* Every variable keeps its type, whatever the sessions do.
THEOREM TypeCorrect == Spec => []TypeOK
<1>1. Foundation => TypeOK
  BY DEF Foundation
<1> QED
  BY <1>1, FoundationHolds, PTL

\* Concurrent corrections of a field are numbered without gap or repetition, in
\* the order of their stamps: correct_field takes the run's lock before it reads
\* the highest revision.
THEOREM RevisionsCorrect == Spec => []RevisionsGapless
<1>1. Foundation => RevisionsGapless
  BY DEF Foundation
<1> QED
  BY <1>1, FoundationHolds, PTL

(***************************************************************************)
(* Second layer: every approved record stands on exactly the evidence its  *)
(* decision consumed.  The argument is about one extraction run: a         *)
(* correction is stamped while its session locks the run for update, and a *)
(* decision reads the corrections while it shares the run, so every        *)
(* correction a decision did not read was stamped after the decision was.  *)
(***************************************************************************)

Deciding(s) == session[s].state \in {"decide_wait", "decide_commit"}

\* A decision in the making is not committed yet and belongs to one session.
FreshDecisions ==
    \A s \in Session :
        Deciding(s) =>
            /\ decision[session[s].decision].status = "absent"
            /\ \A t \in Session :
                  Deciding(t) /\ session[t].decision = session[s].decision => t = s

\* Every correction a decision did not consume was stamped after it.
DecisionsSeePast ==
    \A d \in Decision :
        decision[d].status = "succeeded" =>
            /\ decision[d].consumed \subseteq corrections[decision[d].extraction]
            /\ \A c \in corrections[decision[d].extraction] :
                  c \notin decision[d].consumed => decision[d].at < c.at

\* What a session relies on while it holds a lock on its run.
EvidenceRow(row) ==
    /\ row.state = "decide_commit" => row.read = corrections[row.extraction]
    /\ row.state = "correct_commit" =>
          /\ ~HasApprovedOutcome(row.extraction)
          /\ \A d \in Decision :
                decision[d].status = "succeeded" /\ decision[d].extraction = row.extraction
                    => decision[d].at < row.at
    /\ row.state = "approve_wait" =>
          /\ decision[row.decision].status = "succeeded"
          /\ decision[row.decision].extraction = row.extraction
    /\ row.state = "task_commit" /\ row.event = "approved" =>
          /\ decision[row.decision].status = "succeeded"
          /\ decision[row.decision].extraction = row.extraction
          /\ row.read = corrections[row.extraction]
          /\ \A c \in corrections[row.extraction] : ~(c.at > decision[row.decision].at)

EvidenceRows == \A s \in Session : EvidenceRow(session[s])

OutcomesDecided ==
    \A o \in outcomes : ApprovedOutcome(o) => decision[o.task].status = "succeeded"

Evidence ==
    /\ FreshDecisions
    /\ DecisionsSeePast
    /\ EvidenceRows
    /\ OutcomesDecided
    /\ ApprovalsMatchEvidence

-----------------------------------------------------------------------------

LEMMA EvidenceInit == Init => Evidence
  BY DEF Init, Evidence, FreshDecisions, Deciding, DecisionsSeePast, EvidenceRows, EvidenceRow,
         OutcomesDecided, ApprovalsMatchEvidence, Idle, NoDecision

\* A step that moves one session and commits no correction, decision or outcome.
LEMMA EvidenceSessionStep ==
    ASSUME Foundation, Evidence,
           NEW s \in Session, NEW row \in SessionRow,
           session' = [session EXCEPT ![s] = row],
           UNCHANGED <<corrections, decision, outcomes>>,
           EvidenceRow(row),
           row.state \in {"decide_wait", "decide_commit"} =>
               /\ decision[row.decision].status = "absent"
               /\ \A t \in Session : t # s /\ Deciding(t) => session[t].decision # row.decision
    PROVE  Evidence'
<1>1. /\ session'[s] = row
      /\ \A t \in Session : t # s => session'[t] = session[t]
  BY DEF Foundation, TypeOK
<1>2. FreshDecisions'
  BY <1>1 DEF Evidence, FreshDecisions, Deciding
<1>3. EvidenceRows'
  BY <1>1 DEF Evidence, EvidenceRows, EvidenceRow, HasApprovedOutcome
<1>4. DecisionsSeePast' /\ OutcomesDecided' /\ ApprovalsMatchEvidence'
  BY DEF Evidence, DecisionsSeePast, OutcomesDecided, ApprovalsMatchEvidence
<1> QED
  BY <1>2, <1>3, <1>4 DEF Evidence

LEMMA EvidenceIdle == EvidenceRow(Idle) /\ Idle.state = "idle" /\ Idle \in SessionRow
  BY IdleTyped DEF EvidenceRow, Idle

\* Locking a task for anything but approval touches no evidence.
LEMMA EvidenceLockAndChange ==
    ASSUME Foundation, Evidence, NEW s \in Session, NEW d \in Decision,
           NEW actor \in Reviewer \cup {None}, NEW row \in TaskRow,
           NEW event \in Event \ {"approved"},
           LockAndChange(s, d, actor, row, event)
    PROVE  Evidence'
<1> DEFINE new == [Idle EXCEPT !.state = "task_commit", !.decision = d,
                               !.actor = actor, !.row = row, !.event = event]
<1>1. new \in SessionRow
  BY IdleTyped DEF SessionRow, Idle, State
<1>2. EvidenceRow(new) /\ new.state = "task_commit"
  BY DEF EvidenceRow, Idle
<1>3. session' = [session EXCEPT ![s] = new] /\ UNCHANGED <<corrections, decision, outcomes>>
  BY DEF LockAndChange
<1> HIDE DEF new
<1> QED
  BY <1>1, <1>2, <1>3, EvidenceSessionStep

\* A correction is committed: it was stamped after every decision on its run.
LEMMA EvidenceCorrect ==
    ASSUME Foundation, Evidence, NEW s \in Session, CorrectFieldCommit(s)
    PROVE  Evidence'
<1>1. session[s].state = "correct_commit"
  BY DEF CorrectFieldCommit
<1>2. PICK e \in Extraction, f \in Field, rev \in Nat, at \in Nat :
         /\ session[s].extraction = e /\ session[s].field = f
         /\ session[s].revision = rev /\ session[s].at = at
  BY <1>1 DEF Foundation, TypeOK, SessionShape, Shaped, SessionRow
<1> DEFINE c == [field |-> f, revision |-> rev, at |-> at]
<1>3. /\ corrections' = [corrections EXCEPT ![e] = @ \cup {c}]
      /\ session' = [session EXCEPT ![s] = Idle]
      /\ UNCHANGED <<clock, decision, task, outcomes, history>>
  BY <1>2 DEF CorrectFieldCommit
<1>4. c.at = at
  OBVIOUS
<1> HIDE DEF c
<1>5. /\ corrections'[e] = corrections[e] \cup {c}
      /\ \A x \in Extraction : x # e => corrections'[x] = corrections[x]
      /\ session'[s] = Idle
      /\ \A t \in Session : t # s => session'[t] = session[t]
  BY <1>3 DEF Foundation, TypeOK
<1>6. /\ ~HasApprovedOutcome(e)
      /\ \A d \in Decision :
            decision[d].status = "succeeded" /\ decision[d].extraction = e => decision[d].at < at
  BY <1>1, <1>2 DEF Evidence, EvidenceRows, EvidenceRow
<1>7. \A t \in Session : t # s => ~HoldsRun(t, e) /\ ~SharesRun(t, e)
  BY <1>1, <1>2 DEF Foundation, RunLocks, HoldsRun
<1>8. FreshDecisions'
  BY <1>3, <1>5, EvidenceIdle DEF Evidence, FreshDecisions, Deciding
<1>9. DecisionsSeePast'
  <2>1. \A d \in Decision : decision[d].status = "succeeded" => decision[d].extraction \in Extraction
    BY DEF Foundation, DecisionShape
  <2> QED
    BY <1>3, <1>4, <1>5, <1>6, <2>1 DEF Evidence, DecisionsSeePast
<1>10. EvidenceRows'
  <2> SUFFICES ASSUME NEW t \in Session, t # s PROVE EvidenceRow(session[t])'
    BY <1>5, EvidenceIdle DEF EvidenceRows, EvidenceRow
  <2>1. session'[t] = session[t] /\ EvidenceRow(session[t])
    BY <1>5 DEF Evidence, EvidenceRows
  <2>2. \/ session[t].state \in {"decide_commit", "correct_commit"}
        \/ session[t].state = "task_commit" /\ session[t].event = "approved"
        => session[t].extraction \in Extraction /\ session[t].extraction # e
    BY <1>7 DEF Foundation, SessionShape, Shaped, HoldsRun, SharesRun
  <2> QED
    BY <1>3, <1>5, <2>1, <2>2 DEF EvidenceRow, HasApprovedOutcome
<1>11. OutcomesDecided'
  BY <1>3 DEF Evidence, OutcomesDecided
<1>12. ApprovalsMatchEvidence'
  <2> SUFFICES ASSUME NEW o \in outcomes, ApprovedOutcome(o)
               PROVE  corrections'[decision[o.task].extraction] = corrections[decision[o.task].extraction]
    BY <1>3 DEF Evidence, ApprovalsMatchEvidence
  <2>1. decision[o.task].extraction # e
    BY <1>6 DEF HasApprovedOutcome
  <2>2. decision[o.task].extraction \in Extraction
    BY DEF Evidence, OutcomesDecided, Foundation, DecisionShape, TypeOK, Outcome
  <2> QED
    BY <1>5, <2>1, <2>2
<1> QED
  BY <1>8, <1>9, <1>10, <1>11, <1>12 DEF Evidence

\* A decision is committed: it consumed all corrections of its run, which it
\* has kept others from adding to since it read them.
LEMMA EvidenceDecide ==
    ASSUME Foundation, Evidence, NEW s \in Session, DecisionCommit(s)
    PROVE  Evidence'
<1>1. session[s].state = "decide_commit" /\ session[s] \in SessionRow
  BY DEF DecisionCommit, Foundation, TypeOK
<1>2. PICK e \in Extraction, d \in Decision : session[s].extraction = e /\ session[s].decision = d
  BY <1>1 DEF Foundation, SessionShape, Shaped
<1>3. /\ UNCHANGED <<corrections, outcomes>>
      /\ session'[s] = Idle
      /\ \A t \in Session : t # s => session'[t] = session[t]
      /\ \A x \in Decision : x # d => decision'[x] = decision[x]
      /\ decision'[d].extraction = e
      /\ decision'[d].status = "succeeded" => decision'[d].consumed = session[s].read
  BY <1>2 DEF DecisionCommit, Foundation, TypeOK
<1>4. session[s].read = corrections[e]
  BY <1>1, <1>2 DEF Evidence, EvidenceRows, EvidenceRow
<1>5. /\ decision[d].status = "absent"
      /\ \A t \in Session : t # s /\ Deciding(t) => session[t].decision # d
  BY <1>1, <1>2 DEF Evidence, FreshDecisions, Deciding
<1>6. \A t \in Session : t # s => ~HoldsRun(t, e)
  BY <1>1, <1>2 DEF Foundation, RunLocks, SharesRun
<1>7. \A o \in outcomes : ApprovedOutcome(o) => o.task \in Decision /\ o.task # d
  BY <1>5 DEF Evidence, OutcomesDecided, Foundation, TypeOK, Outcome
<1>8. FreshDecisions'
  <2>1. \A t \in Session : Deciding(t) => session[t].decision \in Decision
    BY DEF Deciding, Foundation, SessionShape, Shaped
  <2> QED
    BY <1>3, <1>5, <2>1, EvidenceIdle DEF Evidence, FreshDecisions, Deciding
<1>9. DecisionsSeePast'
  BY <1>3, <1>4 DEF Evidence, DecisionsSeePast
<1>10. EvidenceRows'
  <2> SUFFICES ASSUME NEW t \in Session, t # s PROVE EvidenceRow(session[t])'
    BY <1>3, EvidenceIdle DEF EvidenceRows, EvidenceRow
  <2>1. session'[t] = session[t] /\ EvidenceRow(session[t])
    BY <1>3 DEF Evidence, EvidenceRows
  <2>2. session[t].state = "correct_commit" => session[t].extraction # e
    BY <1>6 DEF HoldsRun
  <2>3. \/ session[t].state = "approve_wait"
        \/ session[t].state = "task_commit" /\ session[t].event = "approved"
        => session[t].decision \in Decision /\ session[t].decision # d
    BY <1>5, <2>1 DEF EvidenceRow, Foundation, SessionShape, Shaped
  <2>4. ~HasApprovedOutcome(session[t].extraction) => ~HasApprovedOutcome(session[t].extraction)'
    BY <1>3, <1>7, <2>1 DEF HasApprovedOutcome
  <2> QED
    BY <1>3, <2>1, <2>2, <2>3, <2>4 DEF EvidenceRow
<1>11. OutcomesDecided' /\ ApprovalsMatchEvidence'
  BY <1>3, <1>7 DEF Evidence, OutcomesDecided, ApprovalsMatchEvidence
<1> QED
  BY <1>8, <1>9, <1>10, <1>11 DEF Evidence

\* A task operation is committed.  Only an approval adds an approved outcome,
\* and it has held its run since it found no correction newer than its decision.
LEMMA EvidenceTaskCommit ==
    ASSUME Foundation, Evidence, NEW s \in Session, TaskCommit(s)
    PROVE  Evidence'
<1>1. session[s].state = "task_commit" /\ session[s] \in SessionRow
  BY DEF TaskCommit, Foundation, TypeOK
<1>2. /\ UNCHANGED <<corrections, decision>>
      /\ session'[s] = Idle
      /\ \A t \in Session : t # s => session'[t] = session[t]
  BY DEF TaskCommit, Foundation, TypeOK
<1>3. CASE ~(session[s].row.status \in Terminal /\ session[s].event = "approved")
  <2>1. \A o \in outcomes' : ApprovedOutcome(o) => o \in outcomes
    BY <1>1, <1>3 DEF TaskCommit, OutcomeOf, ApprovedOutcome, Foundation, SessionShape, Shaped
  <2>2. outcomes \subseteq outcomes'
    BY DEF TaskCommit
  <2>3. \A e : HasApprovedOutcome(e)' = HasApprovedOutcome(e)
    BY <1>2, <2>1, <2>2 DEF HasApprovedOutcome, ApprovedOutcome
  <2>4. FreshDecisions'
    BY <1>2, EvidenceIdle DEF Evidence, FreshDecisions, Deciding
  <2>5. EvidenceRows'
    BY <1>2, <2>3, EvidenceIdle DEF Evidence, EvidenceRows, EvidenceRow
  <2>6. DecisionsSeePast' /\ OutcomesDecided' /\ ApprovalsMatchEvidence'
    BY <1>2, <2>1 DEF Evidence, DecisionsSeePast, OutcomesDecided, ApprovalsMatchEvidence,
                      ApprovedOutcome
  <2> QED
    BY <2>4, <2>5, <2>6 DEF Evidence
<1>4. CASE session[s].row.status \in Terminal /\ session[s].event = "approved"
  <2>1. PICK e \in Extraction, d \in Decision :
           session[s].extraction = e /\ session[s].decision = d
    BY <1>1, <1>4 DEF Foundation, SessionShape, Shaped
  <2> DEFINE new == OutcomeOf(s)
  <2>2. /\ decision[d].status = "succeeded" /\ decision[d].extraction = e
        /\ session[s].read = corrections[e]
        /\ \A c \in corrections[e] : ~(c.at > decision[d].at)
    BY <1>1, <1>4, <2>1 DEF Evidence, EvidenceRows, EvidenceRow
  <2>3. decision[d].consumed = corrections[e]
    <3>1. decision[d].at \in Nat /\ \A c \in corrections[e] : c.at \in Nat
      BY DEF Foundation, TypeOK, DecisionRow, Correction
    <3>2. /\ decision[d].consumed \subseteq corrections[e]
          /\ \A c \in corrections[e] : c \notin decision[d].consumed => decision[d].at < c.at
      BY <2>2 DEF Evidence, DecisionsSeePast
    <3>3. \A c \in corrections[e] : ~(decision[d].at < c.at)
      BY <2>2, <3>1
    <3> QED
      BY <3>2, <3>3
  <2>4. /\ new.task = d
        /\ new.corrections = Cardinality(corrections[e])
        /\ new.type = "approved" <=> corrections[e] = {}
    BY <1>4, <2>1, <2>2 DEF OutcomeOf
  <2>5. outcomes' = outcomes \cup {new}
    BY <1>4 DEF TaskCommit
  <2> HIDE DEF new
  <2>6. \A t \in Session : t # s => ~HoldsRun(t, e)
    BY <1>1, <1>4, <2>1 DEF Foundation, RunLocks, HoldsRun
  <2>7. FreshDecisions' /\ DecisionsSeePast'
    BY <1>2, EvidenceIdle DEF Evidence, FreshDecisions, Deciding, DecisionsSeePast
  <2>8. EvidenceRows'
    <3> SUFFICES ASSUME NEW t \in Session, t # s PROVE EvidenceRow(session[t])'
      BY <1>2, EvidenceIdle DEF EvidenceRows, EvidenceRow
    <3>1. session'[t] = session[t] /\ EvidenceRow(session[t])
      BY <1>2 DEF Evidence, EvidenceRows
    <3>2. session[t].state = "correct_commit" => session[t].extraction # e
      BY <2>6 DEF HoldsRun
    <3>3. session[t].extraction # e /\ ~HasApprovedOutcome(session[t].extraction)
            => ~HasApprovedOutcome(session[t].extraction)'
      BY <1>2, <2>2, <2>4, <2>5, <3>1 DEF HasApprovedOutcome
    <3> QED
      BY <1>2, <3>1, <3>2, <3>3 DEF EvidenceRow
  <2>9. OutcomesDecided' /\ ApprovalsMatchEvidence'
    BY <1>2, <2>2, <2>3, <2>4, <2>5 DEF Evidence, OutcomesDecided, ApprovalsMatchEvidence
  <2> QED
    BY <2>7, <2>8, <2>9 DEF Evidence
<1> QED
  BY <1>3, <1>4

\* Every step keeps the evidence invariant.
LEMMA EvidenceNext == Foundation /\ Evidence /\ [Next]_vars => Evidence'
<1> SUFFICES ASSUME Foundation, Evidence, [Next]_vars PROVE Evidence'
  OBVIOUS
<1>0. \A s \in Session : session[s] \in SessionRow
  BY DEF Foundation, TypeOK
<1>1. ASSUME NEW s \in Session, NEW e \in Extraction, NEW f \in Field, CorrectField(s, e, f)
      PROVE  Evidence'
  <2> DEFINE new == session'[s]
  <2>1. /\ new.state = "correct_commit" /\ new.extraction = e /\ new.at = clock + 1
        /\ session' = [session EXCEPT ![s] = new]
        /\ UNCHANGED <<corrections, decision, outcomes>>
    BY <1>1 DEF CorrectField, Idle, Foundation, TypeOK
  <2>2. new \in SessionRow
    BY <1>1, FoundationNext DEF Next, Foundation, TypeOK
  <2>3. \A d \in Decision : decision[d].at < clock + 1
    BY DEF Foundation, TypeOK, StampsPast, DecisionRow
  <2>4. EvidenceRow(new)
    BY <1>1, <2>1, <2>3 DEF EvidenceRow, CorrectField
  <2> QED
    BY <2>1, <2>2, <2>4, EvidenceSessionStep
<1>2. ASSUME NEW s \in Session, CorrectFieldCommit(s)
      PROVE  Evidence'
  BY <1>2, EvidenceCorrect
<1>3. ASSUME NEW s \in Session, NEW e \in Extraction, NEW d \in Decision, StartDecision(s, e, d)
      PROVE  Evidence'
  <2> DEFINE new == session'[s]
  <2>1. /\ new.state = "decide_wait" /\ new.decision = d
        /\ session' = [session EXCEPT ![s] = new]
        /\ UNCHANGED <<corrections, decision, outcomes>>
    BY <1>3 DEF StartDecision, Idle, Foundation, TypeOK
  <2>2. new \in SessionRow
    BY <1>3, FoundationNext DEF Next, Foundation, TypeOK
  <2>3. EvidenceRow(new)
    BY <2>1 DEF EvidenceRow
  <2>4. decision[d].status = "absent" /\ \A t \in Session : session[t].decision # d
    BY <1>3 DEF StartDecision
  <2> QED
    BY <2>1, <2>2, <2>3, <2>4, EvidenceSessionStep
<1>4. ASSUME NEW s \in Session, NEW v \in Verdicts \cup {None}, RunEngine(s, v)
      PROVE  Evidence'
  <2> DEFINE new == session'[s]
  <2>1. /\ new.state = "decide_commit" /\ new.decision = session[s].decision
        /\ new.extraction = session[s].extraction
        /\ new.read = corrections[session[s].extraction]
        /\ session' = [session EXCEPT ![s] = new]
        /\ UNCHANGED <<corrections, decision, outcomes>>
    BY <1>0, <1>4 DEF RunEngine, SessionRow, Foundation, TypeOK
  <2>2. new \in SessionRow
    BY <1>4, FoundationNext DEF Next, Foundation, TypeOK
  <2>3. EvidenceRow(new)
    BY <2>1 DEF EvidenceRow
  <2>4. /\ decision[session[s].decision].status = "absent"
        /\ \A t \in Session : t # s /\ Deciding(t) => session[t].decision # session[s].decision
    BY <1>4 DEF RunEngine, Evidence, FreshDecisions, Deciding
  <2> QED
    BY <2>1, <2>2, <2>3, <2>4, EvidenceSessionStep
<1>5. ASSUME NEW s \in Session, DecisionCommit(s)
      PROVE  Evidence'
  BY <1>5, EvidenceDecide
<1>6. ASSUME NEW s \in Session, NEW d \in Decision, NEW m \in Reviewer, CreateTask(s, d, m)
      PROVE  Evidence'
  <2> DEFINE new == session'[s]
  <2>1. /\ new.state = "create_commit"
        /\ session' = [session EXCEPT ![s] = new]
        /\ UNCHANGED <<corrections, decision, outcomes>>
    BY <1>6 DEF CreateTask, Idle, Foundation, TypeOK
  <2>2. new \in SessionRow
    BY <1>6, FoundationNext DEF Next, Foundation, TypeOK
  <2>3. EvidenceRow(new)
    BY <2>1 DEF EvidenceRow
  <2> QED
    BY <2>1, <2>2, <2>3, EvidenceSessionStep
<1>7. ASSUME NEW s \in Session, CreateTaskCommit(s)
      PROVE  Evidence'
  BY <1>7, EvidenceIdle, EvidenceSessionStep DEF CreateTaskCommit
<1>8. ASSUME NEW s \in Session, NEW d \in Decision, NEW m \in Reviewer, AddComment(s, d, m)
      PROVE  Evidence'
  <2>1. task[d] \in TaskRow
    BY DEF Foundation, TypeOK
  <2> QED
    BY <1>8, <2>1, EvidenceLockAndChange DEF AddComment, Event
<1>9. ASSUME NEW s \in Session, NEW d \in Decision, NEW m \in Reviewer, NEW n \in Senior,
             EscalateToSenior(s, d, m, n)
      PROVE  Evidence'
  <2>1. [task[d] EXCEPT !.status = "escalated", !.owner = n, !.escalation = "senior_review"]
          \in TaskRow
    BY SeniorAssumption DEF Foundation, TypeOK, TaskRow, Status, Escalation
  <2> QED
    BY <1>9, <2>1, EvidenceLockAndChange DEF EscalateToSenior, Event
<1>10. ASSUME NEW s \in Session, NEW d \in Decision, NEW m \in Reviewer,
              RequestInformation(s, d, m)
       PROVE  Evidence'
  <2>1. [task[d] EXCEPT !.status = "information_requested"] \in TaskRow
    BY DEF Foundation, TypeOK, TaskRow, Status
  <2> QED
    BY <1>10, <2>1, EvidenceLockAndChange DEF RequestInformation, Event
<1>11. ASSUME NEW s \in Session, NEW d \in Decision, RespondToInformationRequest(s, d)
       PROVE  Evidence'
  <2>1. [task[d] EXCEPT !.status = IF task[d].escalation = "senior_review"
                                   THEN "escalated" ELSE "open"] \in TaskRow
    BY DEF Foundation, TypeOK, TaskRow, Status
  <2> QED
    BY <1>11, <2>1, EvidenceLockAndChange DEF RespondToInformationRequest, Event
<1>12. ASSUME NEW s \in Session, NEW d \in Decision, NEW m \in Reviewer, Reject(s, d, m)
       PROVE  Evidence'
  <2>1. [task[d] EXCEPT !.status = "rejected"] \in TaskRow
    BY DEF Foundation, TypeOK, TaskRow, Status
  <2> QED
    BY <1>12, <2>1, EvidenceLockAndChange DEF Reject, Event
<1>13. ASSUME NEW s \in Session, NEW d \in Decision, NEW m \in Reviewer, Approve(s, d, m)
       PROVE  Evidence'
  <2> DEFINE new == session'[s]
  <2>1. /\ new.state = "approve_wait" /\ new.decision = d
        /\ new.extraction = decision[d].extraction /\ decision[d].status = "succeeded"
        /\ session' = [session EXCEPT ![s] = new]
        /\ UNCHANGED <<corrections, decision, outcomes>>
    BY <1>13 DEF Approve, Idle, Foundation, TypeOK
  <2>2. new \in SessionRow
    BY <1>13, FoundationNext DEF Next, Foundation, TypeOK
  <2>3. EvidenceRow(new)
    BY <2>1 DEF EvidenceRow
  <2> QED
    BY <2>1, <2>2, <2>3, EvidenceSessionStep
<1>14. ASSUME NEW s \in Session, ApproveLockRun(s)
       PROVE  Evidence'
  <2> DEFINE new == session'[s]
  <2> DEFINE d == session[s].decision
  <2>1. /\ session' = [session EXCEPT ![s] = new]
        /\ UNCHANGED <<corrections, decision, outcomes>>
        /\ \/ new = Idle
           \/ /\ new.state = "task_commit" /\ new.decision = d
              /\ new.extraction = session[s].extraction
              /\ new.read = corrections[session[s].extraction]
              /\ ~StaleAfterCorrection(d)
    BY <1>0, <1>14 DEF ApproveLockRun, SessionRow, Foundation, TypeOK
  <2>2. new \in SessionRow
    BY <1>14, FoundationNext DEF Next, Foundation, TypeOK
  <2>3. decision[d].status = "succeeded" /\ decision[d].extraction = session[s].extraction
    BY <1>14 DEF ApproveLockRun, Evidence, EvidenceRows, EvidenceRow
  <2>4. EvidenceRow(new)
    BY <2>1, <2>3, EvidenceIdle DEF EvidenceRow, StaleAfterCorrection
  <2> QED
    BY <2>1, <2>2, <2>4, EvidenceIdle, EvidenceSessionStep
<1>15. ASSUME NEW s \in Session, TaskCommit(s)
       PROVE  Evidence'
  BY <1>15, EvidenceTaskCommit
<1>16. ASSUME NEW s \in Session, Rollback(s)
       PROVE  Evidence'
  BY <1>16, EvidenceIdle, EvidenceSessionStep DEF Rollback
<1>17. ASSUME UNCHANGED vars
       PROVE  Evidence'
  BY <1>17 DEF vars, Evidence, FreshDecisions, Deciding, DecisionsSeePast, EvidenceRows, EvidenceRow,
               HasApprovedOutcome, OutcomesDecided, ApprovalsMatchEvidence
<1> QED
  BY <1>1, <1>2, <1>3, <1>4, <1>5, <1>6, <1>7, <1>8, <1>9, <1>10, <1>11, <1>12, <1>13,
     <1>14, <1>15, <1>16, <1>17 DEF Next

\* An approved outcome stands on exactly the corrections its decision consumed,
\* for ever: approve and correct_field lock the extraction run, and a decision
\* run shares it from its first flush to its commit.
THEOREM ApprovalsCorrect == Spec => []ApprovalsMatchEvidence
<1>1. Spec => [](Foundation /\ Evidence)
  BY FoundationInit, FoundationNext, EvidenceInit, EvidenceNext, PTL DEF Spec
<1>2. Evidence => ApprovalsMatchEvidence
  BY DEF Evidence
<1> QED
  BY <1>1, <1>2, PTL
=============================================================================
